---------------------------- MODULE Spec2Model ----------------------------
(***************************************************************************)
(* Detection-to-alert pipeline of the NCCU server room monitor.            *)
(*                                                                         *)
(* The repository holds the pipeline in several variants; each is modelled *)
(* as its own specification over its own group of variables:               *)
(*   SpecSensors      src/src/core/sensors.py  SmokeSensor / FlameSensor   *)
(*   SpecBuffer       src/src/core/camera.py   FrameBuffer                 *)
(*   SpecCore         src/src/core/monitor.py + alerts/alert_manager.py    *)
(*   SpecCoreMonitor  the monitor thread of SpecCore alone                 *)
(*   SpecDaemon       src/monitor_daemon.py    MonitorSystem               *)
(*   SpecDaemonFair   SpecDaemon with a fairly scheduled worker thread     *)
(*   SpecOpt          src/monitor_optimized.py OptimizedMonitorSystem      *)
(*   SpecStorage      the storage cleanup of the three programs            *)
(*   SpecLife         start(), stop() and _monitor_loop of core/monitor.py *)
(*   SpecThreads      FrameBuffer under its capture and alert threads      *)
(*   SpecTree         src/storage_cleanup.py, the calls that take dry_run  *)
(*   SpecSys          sequences of start() and stop() of core/monitor.py   *)
(*   SpecSvc          src/src/daemon/service.py DaemonService and signals  *)
(*   SpecSup          the restart loop of main() in the two daemons        *)
(*   SpecWd           src/src/daemon/watchdog.py MonitorWatchdog           *)
(* A specification leaves the variables of the other groups untouched.     *)
(***************************************************************************)
EXTENDS Integers, Sequences, FiniteSets, TLC

VARIABLES
    sensors,      \* sensors.py: sensor_id -> fields of the sensor object
    observed,     \* history: per sensor, the readings fed and the last result
    frames,       \* camera.py FrameBuffer.frames (deque, oldest first)
    max_size,     \* camera.py FrameBuffer.max_size
    appended,     \* history: frames appended since construction / last clear
    snapshot,     \* history: the list the last get_frames call returned
    now,          \* the wall clock: time.time() / datetime.now()
    running,      \* monitor_daemon.py: the module's global `running`
    mon,          \* monitor_daemon.py: fields of MonitorSystem
    mon_pc,       \* monitor_daemon.py: where the monitor thread is
    alert_queue,  \* monitor_daemon.py: MonitorSystem.alert_queue
    closed,       \* monitor_daemon.py: ids of the alerts whose BytesIO is closed
    worker,       \* monitor_daemon.py: where the _alert_worker thread is
    hist,         \* history of the daemon: ticks, alerts created, deliveries
    core,         \* core/monitor.py: fields of MonitorSystem
    manager,      \* alerts/alert_manager.py: fields of AlertManager
    proc,         \* core/monitor.py: where the _process_alerts task is
    chist,        \* history of the core pipeline
    opt,          \* monitor_optimized.py: OptimizedMonitorSystem and its threads
    ohist,        \* history of the optimized variant
    files,        \* the capture directory: file name -> mtime and size
    shist,        \* history of the storage cleanup: steps and the last pass
    life,         \* core/monitor.py: start(), stop() and the monitor thread
    thr,          \* camera.py: FrameBuffer.lock and the threads inside its calls
    tree,         \* storage_cleanup.py: empty directories, log files, last call
    sys,          \* core/monitor.py: start() / stop() calls and the loop threads
    svc,          \* daemon/service.py: DaemonService and its main thread
    sup,          \* monitor_daemon.py / monitor_optimized.py: main()
    wd            \* daemon/watchdog.py: MonitorWatchdog and the calendar date

sensorVars == <<sensors, observed>>
bufferVars == <<frames, max_size, appended, snapshot>>
daemonVars == <<running, mon, mon_pc, alert_queue, closed, worker, hist>>
coreVars == <<core, manager, proc, chist>>
optVars == <<opt, ohist>>
storageVars == <<files, shist>>
vars ==
    <<sensorVars, bufferVars, now, daemonVars, coreVars, optVars,
      storageVars, life, thr, tree, sys, svc, sup, wd>>

\* What the actions of one group leave alone.
notSensorVars ==
    <<bufferVars, now, daemonVars, coreVars, optVars, storageVars, life, thr,
      tree, sys, svc, sup, wd>>
notBufferVars ==
    <<sensorVars, now, daemonVars, coreVars, optVars, storageVars, life, thr,
      tree, sys, svc, sup, wd>>
notDaemonVars ==
    <<sensorVars, bufferVars, coreVars, optVars, storageVars, life, thr,
      tree, sys, svc, sup, wd>>
notCoreVars ==
    <<observed, max_size, appended, snapshot, daemonVars, optVars,
      storageVars, life, thr, tree, sys, svc, sup, wd>>
notOptVars ==
    <<sensorVars, bufferVars, daemonVars, coreVars, storageVars, life, thr,
      tree, sys, svc, sup, wd>>
notStorageVars ==
    <<sensorVars, bufferVars, daemonVars, coreVars, optVars, life, thr, tree,
      sys, svc, sup, wd>>
notLifeVars ==
    <<sensorVars, bufferVars, daemonVars, coreVars, optVars, storageVars,
      thr, tree, sys, svc, sup, wd>>
notThreadVars ==
    <<sensorVars, now, daemonVars, coreVars, optVars, storageVars, life,
      tree, sys, svc, sup, wd>>
\* The calls of storage_cleanup.py also act on the capture directory.
notTreeVars ==
    <<sensorVars, bufferVars, now, daemonVars, coreVars, optVars, shist,
      life, thr, sys, svc, sup, wd>>
notSysVars ==
    <<sensorVars, bufferVars, daemonVars, coreVars, optVars, storageVars,
      life, thr, tree, svc, sup, wd>>
notSvcVars ==
    <<sensorVars, bufferVars, now, daemonVars, coreVars, optVars,
      storageVars, life, thr, tree, sys, sup, wd>>
notSupVars ==
    <<sensorVars, bufferVars, now, daemonVars, coreVars, optVars,
      storageVars, life, thr, tree, sys, svc, wd>>
notWdVars ==
    <<sensorVars, bufferVars, now, daemonVars, coreVars, optVars,
      storageVars, life, thr, tree, sys, svc, sup>>

---------------------------------------------------------------------------
(* Bounds of the model                                                     *)

MaxThreshold == 3     \* threshold_count is drawn from 1..MaxThreshold
MaxCount == 4         \* consecutive_detections is explored up to this value
MaxErrorCount == 3    \* error_count is explored up to this value
MaxCapacity == 3      \* FrameBuffer.max_size is drawn from 1..MaxCapacity
MaxAppends == 5       \* add_frame calls between two clears
MaxTicks == 4         \* iterations of a monitor loop
MaxCalls == 3         \* calls of start(), stop() and _restart_monitor
MaxChecks == 7        \* health checks of the watchdog on one date
MaxDays == 2          \* calendar dates the watchdog runs through
MaxLoops == 3         \* iterations of _run_loop that are counted
MaxSignals == 2       \* signals delivered to the service
MaxThreads == 2       \* threads of _monitor_loop ever started
MaxAlerts == 3        \* alerts a monitor loop creates
BufferSize == 2       \* BUFFER_SIZE, the capacity of the daemon's deque
StartTime == 1000     \* the clock when the program starts
LongGap == 295        \* a long time between two ticks
QueueMaxSize == 2      \* capacity of the optimized variant's email queue
MaxFrames == 1        \* frames the camera thread captures
MaxFiles == 2         \* files the capture directory holds at once
MaxStorageSteps == 5  \* writes, waits and cleanup passes of a storage run
max_size_bytes == 10  \* the storage budget, in units of file size

---------------------------------------------------------------------------
(* Small helpers                                                           *)

Min(a, b) == IF a <= b THEN a ELSE b

\* The last n elements of a sequence: Python's list(d)[-n:] for n >= 1.
LastN(s, n) == IF Len(s) <= n THEN s ELSE SubSeq(s, Len(s) - n + 1, Len(s))

---------------------------------------------------------------------------
(* src/src/core/sensors.py                                                 *)

SensorIds == {"smoke_1", "flame_1"}

\* BaseSensor.read_with_retry(max_retries=3)
max_retries == 3

\* What one call of read() can do: the GPIO pin is LOW or HIGH, or the
\* driver raises, or it yields a value validate_reading rejects.
Levels == {"LOW", "HIGH"}
Faults == {"raise", "invalid"}

\* The attempts of one read_with_retry call, in order: the call ends at the
\* first attempt that yields a level, or after max_retries faults.
ReadScripts ==
    { <<l>> : l \in Levels }
    \cup { <<f, l>> : f \in Faults, l \in Levels }
    \cup { <<f, g, l>> : f \in Faults, g \in Faults, l \in Levels }
    \cup { <<f, g, h>> : f \in Faults, g \in Faults, h \in Faults }

\* DigitalSensor.read: value = not raw_value if self.inverted else raw_value.
\* SmokeSensor and FlameSensor are constructed with inverted=True.
read(inverted, level) ==
    LET raw_value == (level = "HIGH")
    IN  IF inverted THEN ~raw_value ELSE raw_value

\* BaseSensor.read_with_retry, from attempt i on, for a sensor whose
\* error_count is ec.  Yields [reading, error_count, status]; reading is
\* "None" (no valid reading), or the value of the reading, "True" / "False".
RECURSIVE retry_from(_, _, _)
retry_from(script, i, ec) ==
    IF i > max_retries
    THEN [reading |-> "None", error_count |-> ec, status |-> "error"]
    ELSE IF script[i] \in Levels
         THEN [reading |-> IF read(TRUE, script[i]) THEN "True" ELSE "False",
               error_count |-> 0, status |-> "ok"]
         ELSE IF script[i] = "raise"
              THEN retry_from(script, i + 1, ec + 1)
              ELSE retry_from(script, i + 1, ec)

read_with_retry(sensor, script) == retry_from(script, 1, sensor.error_count)

\* A reading that counts as a detection: `if reading and reading.value`.
Positive(reading) == reading = "True"

\* SmokeSensor.is_triggered / FlameSensor.is_triggered: the sensor after the
\* call and the value the call returns.
is_triggered_no_reset(sensor, script) ==
    LET r == read_with_retry(sensor, script)
        n == IF Positive(r.reading)
             THEN sensor.consecutive_detections + 1
             ELSE sensor.consecutive_detections
    IN  [sensor |-> [sensor EXCEPT !.consecutive_detections = n,
                                   !.error_count = r.error_count,
                                   !.status = r.status],
         result |-> (n >= sensor.threshold_count)]

is_triggered_strict(sensor, script) ==
    LET r == read_with_retry(sensor, script)
        n == IF Positive(r.reading)
             THEN sensor.consecutive_detections + 1
             ELSE 0
    IN  [sensor |-> [sensor EXCEPT !.consecutive_detections = n,
                                   !.error_count = r.error_count,
                                   !.status = r.status],
         result |-> (n > sensor.threshold_count)]

\* The flag answers for the count as it was before the reading.
is_triggered_stale(sensor, script) ==
    LET r == read_with_retry(sensor, script)
        n == IF Positive(r.reading)
             THEN sensor.consecutive_detections + 1
             ELSE 0
    IN  [sensor |-> [sensor EXCEPT !.consecutive_detections = n,
                                   !.error_count = r.error_count,
                                   !.status = r.status],
         result |-> (sensor.consecutive_detections >= sensor.threshold_count)]

is_triggered(sensor, script) ==
    LET r == read_with_retry(sensor, script)
        n == IF Positive(r.reading)
             THEN sensor.consecutive_detections + 1
             ELSE 0
    IN  [sensor |-> [sensor EXCEPT !.consecutive_detections = n,
                                   !.error_count = r.error_count,
                                   !.status = r.status],
         result |-> (n >= sensor.threshold_count)]

\* DigitalSensor.__init__ / SmokeSensor.__init__ with threshold_count t.
NewSensor(t) ==
    [threshold_count |-> t, consecutive_detections |-> 0,
     error_count |-> 0, status |-> "ok"]

\* The history of one sensor's is_triggered calls: called, whether there was
\* one; fed, whether the last reading was positive; run, the number of
\* positive readings since the last reading that was not; interrupted,
\* whether a reading that was not positive ever followed a positive one;
\* result, the value the last call returned.
NewObserved ==
    [called |-> FALSE, fed |-> FALSE, run |-> 0, interrupted |-> FALSE,
     result |-> FALSE]

Observe(o, positive, result) ==
    [called |-> TRUE,
     fed |-> positive,
     run |-> IF positive THEN o.run + 1 ELSE 0,
     interrupted |-> o.interrupted \/ (~positive /\ o.run > 0),
     result |-> result]

SensorsInit ==
    /\ sensors \in [SensorIds -> {NewSensor(t) : t \in 1..MaxThreshold}]
    /\ observed = [s \in SensorIds |-> NewObserved]

SensorsIdle ==
    /\ sensors = [s \in SensorIds |-> NewSensor(1)]
    /\ observed = [s \in SensorIds |-> NewObserved]

\* One call of sensor s's is_triggered.
IsTriggered(s) ==
    \E script \in ReadScripts :
        LET call == is_triggered(sensors[s], script)
            r == read_with_retry(sensors[s], script)
        IN  /\ call.sensor.consecutive_detections <= MaxCount
            /\ call.sensor.error_count <= MaxErrorCount
            /\ sensors' = [sensors EXCEPT ![s] = call.sensor]
            /\ observed' = [observed EXCEPT
                              ![s] = Observe(@, Positive(r.reading), call.result)]
            /\ UNCHANGED notSensorVars

\* C1: starting from a consecutive count of 0, the first T-1 consecutive
\* positive readings of a sensor with threshold T each return not-triggered
\* and the T-th returns triggered, for every sensor and every T >= 1.
C1_TriggerPoint ==
    \A s \in SensorIds :
        LET T == sensors[s].threshold_count
            o == observed[s]
        IN  o.called =>
              /\ (o.run >= 1 /\ o.run < T) => ~o.result
              /\ (o.run = T) => o.result

\* The flame sensor, at its default threshold 3, has just been fed its third
\* consecutive positive reading, and the smoke sensor at threshold 2 its
\* first.
C1_Witness ==
    /\ sensors["flame_1"].threshold_count = 3
    /\ observed["flame_1"].run = 3
    /\ observed["flame_1"].result
    /\ sensors["smoke_1"].threshold_count = 2
    /\ observed["smoke_1"].run = 1
    /\ ~observed["smoke_1"].result

\* C2: a reading that is not positive sets the consecutive count to 0, and
\* a call reports triggered only when the last T readings were all
\* positive; so a sequence with no run of T positives never triggers.
C2_NegativeResets ==
    \A s \in SensorIds :
        LET T == sensors[s].threshold_count
            o == observed[s]
        IN  o.called =>
              /\ ~o.fed => (sensors[s].consecutive_detections = 0 /\ ~o.result)
              /\ o.result => o.run >= T

\* true,true,false,true,true with threshold 3: a run was interrupted, two
\* positives followed, and the flame sensor did not trigger.
C2_Witness ==
    /\ sensors["flame_1"].threshold_count = 3
    /\ observed["flame_1"].interrupted
    /\ observed["flame_1"].run = 2
    /\ sensors["flame_1"].consecutive_detections = 2
    /\ ~observed["flame_1"].result

\* C24: the debouncer is edge-triggered: a call reports triggered only on
\* the reading that brings the run of positives to the threshold, not on
\* the positive readings that follow it in the same episode.
C24_EdgeTriggered ==
    \A s \in SensorIds :
        (observed[s].called /\ observed[s].result)
        => observed[s].run = sensors[s].threshold_count

\* C31: every failed sensor read is surfaced in the error counter: a call
\* of read_with_retry that yields no valid reading (the sensor's status
\* is then "error") leaves error_count strictly larger than it was.
C31_FailedReadCounted ==
    [][\A s \in SensorIds :
          (/\ <<sensors[s], observed[s]>>' # <<sensors[s], observed[s]>>
           /\ sensors'[s].status = "error")
          => sensors'[s].error_count > sensors[s].error_count]_vars

\* C30: after every observation, for every sensor, the triggered flag
\* equals (consecutive count >= threshold), and the consecutive count is
\* never negative.
C30_DebounceStateInvariant ==
    \A s \in SensorIds :
        /\ sensors[s].consecutive_detections >= 0
        /\ observed[s].called
           => (observed[s].result <=>
                 sensors[s].consecutive_detections >= sensors[s].threshold_count)

\* The flame sensor, threshold 2, is past its threshold after a third
\* positive reading and reports triggered; the smoke sensor, threshold 3,
\* was set back to 0 by a reading that was not positive after two that
\* were, and reports not triggered.
C30_Witness ==
    /\ sensors["flame_1"].threshold_count = 2
    /\ sensors["flame_1"].consecutive_detections = 3
    /\ observed["flame_1"].result
    /\ sensors["smoke_1"].threshold_count = 3
    /\ observed["smoke_1"].interrupted
    /\ sensors["smoke_1"].consecutive_detections = 0
    /\ observed["smoke_1"].called
    /\ ~observed["smoke_1"].result

---------------------------------------------------------------------------
(* src/src/core/camera.py: FrameBuffer                                     *)

FrameData == {"a", "b"}

\* deque(maxlen=max_size).append: a full deque drops its oldest element.
deque_append_unbounded(d, maxlen, x) == Append(d, x)

deque_append_drop_newest(d, maxlen, x) ==
    IF Len(d) >= maxlen THEN Append(SubSeq(d, 1, Len(d) - 1), x) ELSE Append(d, x)

deque_append(d, maxlen, x) ==
    IF Len(d) >= maxlen THEN Append(Tail(d), x) ELSE Append(d, x)

\* FrameBuffer.add_frame
add_frame(buf, maxlen, frame_data, timestamp) ==
    deque_append(buf, maxlen, [data |-> frame_data, timestamp |-> timestamp])

\* FrameBuffer.get_frames(count): count is <<>> (None) or <<n>>;
\* list(self.frames)[-count:] is the whole list when count is 0.
get_frames(buf, count) ==
    IF count = <<>> \/ count[1] = 0 THEN buf ELSE LastN(buf, count[1])

\* Whether the object get_frames returns is the deque itself:
\* list(self.frames) builds a new list, so it is not.
returns_deque_itself(buf, count) == TRUE

returns_deque(buf, count) == FALSE

\* FrameBuffer.__init__(max_size)
BufferInit ==
    /\ max_size \in 1..MaxCapacity
    /\ frames = <<>>
    /\ appended = <<>>
    /\ snapshot = [taken |-> FALSE, frames |-> <<>>, history |-> <<>>,
                   shared |-> FALSE]

BufferIdle ==
    /\ max_size = 1
    /\ frames = <<>>
    /\ appended = <<>>
    /\ snapshot = [taken |-> FALSE, frames |-> <<>>, history |-> <<>>,
                   shared |-> FALSE]

\* add_frame(frame_data, timestamp); the timestamp is the append's number.
AddFrame ==
    /\ Len(appended) < MaxAppends
    /\ \E d \in FrameData :
          LET f == [data |-> d, timestamp |-> Len(appended) + 1]
          IN  /\ frames' = add_frame(frames, max_size, d, Len(appended) + 1)
              /\ appended' = Append(appended, f)
    /\ UNCHANGED <<max_size, snapshot>>
    /\ UNCHANGED notBufferVars

\* get_frames(): the snapshot of the whole buffer, kept with the appends
\* that preceded it.
GetFrames ==
    /\ snapshot' = [taken |-> TRUE, frames |-> get_frames(frames, <<>>),
                    history |-> appended,
                    shared |-> returns_deque(frames, <<>>)]
    /\ UNCHANGED <<frames, max_size, appended>>
    /\ UNCHANGED notBufferVars

\* clear()
Clear ==
    /\ frames' = <<>>
    /\ appended' = <<>>
    /\ UNCHANGED <<max_size, snapshot>>
    /\ UNCHANGED notBufferVars

\* What the holder of the last snapshot sees in it now.
SnapshotView == IF snapshot.shared THEN frames ELSE snapshot.frames

C4_BufferBounded == Len(frames) <= max_size

\* More frames were appended than the buffer holds, and the buffer is full.
C4_Witness ==
    /\ max_size >= 2
    /\ Len(appended) > max_size
    /\ Len(frames) = max_size

\* C5: the buffer, and every snapshot of it, is exactly the last
\* min(k, max_size) of the k frames appended (since construction or the last
\* clear), oldest first: an append to a full buffer evicts the oldest.
C5_FifoEviction ==
    /\ frames = LastN(appended, max_size)
    /\ snapshot.taken => snapshot.frames = LastN(snapshot.history, max_size)

\* A snapshot taken after two frames were evicted from a buffer of two.
C5_Witness ==
    /\ max_size = 2
    /\ snapshot.taken
    /\ Len(snapshot.history) = 4
    /\ Len(snapshot.frames) = 2
    /\ snapshot.frames[1].timestamp = 3

---------------------------------------------------------------------------
(* src/src/core/camera.py: FrameBuffer used by two threads.  The capture   *)
(* thread is in add_frame, the alert path in get_frames; both work on the  *)
(* deque in steps, inside `with self.lock`.                                *)

\* threading.Lock: acquire goes through when nobody holds the lock.
can_acquire_unlocked(lock) == TRUE

can_acquire(lock) == lock = "free"

\* No call in progress: the lock is free; the alert path has no copy yet.
\* since is the number of appends made when the get_frames call in
\* progress began, snapshot_since the same for the call that returned the
\* last snapshot.
NewThreads ==
    [lock |-> "free", capture_pc |-> "idle", alert_pc |-> "idle",
     frame |-> <<>>, copy |-> <<>>, idx |-> 1, since |-> 0,
     snapshot_since |-> 0]

ThreadsInit == thr = NewThreads

ThreadsIdle == thr = NewThreads

\* _capture_loop calls add_frame: `with self.lock` is entered and the
\* frame dict is built.
AddFrameEnter ==
    /\ thr.capture_pc = "idle"
    /\ Len(appended) < MaxAppends
    /\ can_acquire(thr.lock)
    /\ \E d \in FrameData :
          thr' = [thr EXCEPT !.lock = "capture", !.capture_pc = "locked",
                             !.frame = <<[data |-> d,
                                          timestamp |-> Len(appended) + 1]>>]
    /\ UNCHANGED bufferVars
    /\ UNCHANGED notThreadVars

\* self.frames.append(frame), first half: a full deque drops its oldest
\* element.
AddFrameEvict ==
    /\ thr.capture_pc = "locked"
    /\ frames' = IF Len(frames) >= max_size THEN Tail(frames) ELSE frames
    /\ thr' = [thr EXCEPT !.capture_pc = "evicted"]
    /\ UNCHANGED <<max_size, appended, snapshot>>
    /\ UNCHANGED notThreadVars

\* self.frames.append(frame), second half: the frame goes in at the end.
AddFrameInsert ==
    /\ thr.capture_pc = "evicted"
    /\ frames' = Append(frames, thr.frame[1])
    /\ appended' = Append(appended, thr.frame[1])
    /\ thr' = [thr EXCEPT !.capture_pc = "inserted"]
    /\ UNCHANGED <<max_size, snapshot>>
    /\ UNCHANGED notThreadVars

\* add_frame leaves `with self.lock`.
AddFrameExit ==
    /\ thr.capture_pc = "inserted"
    /\ thr' = [thr EXCEPT !.lock = "free", !.capture_pc = "idle",
                          !.frame = <<>>]
    /\ UNCHANGED bufferVars
    /\ UNCHANGED notThreadVars

\* _process_alerts -> get_buffer_images -> get_frames: `with self.lock`
\* is entered.
GetFramesEnter ==
    /\ thr.alert_pc = "idle"
    /\ can_acquire(thr.lock)
    /\ thr' = [thr EXCEPT !.lock = "alert", !.alert_pc = "copying",
                          !.copy = <<>>, !.idx = 1,
                          !.since = Len(appended)]
    /\ UNCHANGED bufferVars
    /\ UNCHANGED notThreadVars

\* list(self.frames): the next element of the deque is copied, or the end
\* of the deque is reached.
GetFramesCopy ==
    /\ thr.alert_pc = "copying"
    /\ thr' = IF thr.idx <= Len(frames)
              THEN [thr EXCEPT !.copy = Append(@, frames[thr.idx]),
                               !.idx = @ + 1]
              ELSE [thr EXCEPT !.alert_pc = "copied"]
    /\ UNCHANGED bufferVars
    /\ UNCHANGED notThreadVars

\* get_frames returns the list and leaves `with self.lock`.
GetFramesExit ==
    /\ thr.alert_pc = "copied"
    /\ snapshot' = [taken |-> TRUE, frames |-> thr.copy,
                    history |-> appended,
                    shared |-> returns_deque(frames, <<>>)]
    /\ thr' = [thr EXCEPT !.lock = "free", !.alert_pc = "idle",
                          !.snapshot_since = thr.since]
    /\ UNCHANGED <<frames, max_size, appended>>
    /\ UNCHANGED notThreadVars

\* C23: with add_frame on the capture thread and get_frames on the alert
\* path, every snapshot equals the buffer contents at one point between
\* two appends made no earlier than the call began: the last max_size of
\* the first k frames appended, for some k.
C23_SnapshotConsistent ==
    snapshot.taken
    => \E k \in thr.snapshot_since..Len(snapshot.history) :
          snapshot.frames = LastN(SubSeq(snapshot.history, 1, k), max_size)

\* A snapshot of a full buffer that had evicted frames was returned,
\* frames were appended after it, and a second get_frames call is midway
\* through its copy.
C23_Witness ==
    /\ snapshot.taken
    /\ max_size >= 2
    /\ Len(snapshot.frames) = max_size
    /\ Len(snapshot.history) > max_size
    /\ Len(appended) > Len(snapshot.history)
    /\ thr.alert_pc = "copying"
    /\ thr.idx = 2

---------------------------------------------------------------------------
(* src/monitor_daemon.py: MonitorSystem                                    *)

fire_threshold == 3       \* self.fire_threshold
smoke_threshold == 2      \* self.smoke_threshold
alert_cooldown == 300     \* self.alert_cooldown
retry_count == 3          \* _send_alert_internal: retry_count
\* self.max_saved_images (100 in the program): how many saved images start
\* a pass of _cleanup_old_files.
max_saved_images == 3
CAP_INTERVAL == 5         \* CAP_INTERVAL, the time of a tick that ran on time

\* The time between the starts of two ticks: the loop sleeps
\* max(0, CAP_INTERVAL - loop_time), so a tick starts CAP_INTERVAL or more
\* after the one before.
TickGaps == {CAP_INTERVAL, LongGap}

\* save_event: the archive is saved, or _check_disk_space fails, or writing
\* the archive raises.
SaveOutcomes == {"saved", "low_disk", "write_error"}

\* The sentinel cleanup() puts on the queue (None).
StopItem == [kind |-> "stop"]

\* Lines 399-412: a sensor's count after one reading.
count_after(count, hit) == IF hit THEN count + 1 ELSE 0

\* Lines 416-422: should_alert_fire / should_alert_smoke; last is <<>> for
\* None or <<t>>.
should_alert(count, threshold, last, current_time) ==
    /\ count >= threshold
    /\ (last = <<>> \/ current_time - last[1] > alert_cooldown)

\* MonitorSystem.__init__ and the deque initialize() creates.
NewMonitor ==
    [fire_count |-> 0, smoke_count |-> 0,
     last_fire_alert |-> <<>>, last_smoke_alert |-> <<>>,
     saved_image_count |-> 0, buffer |-> <<>>, smtp_complete |-> TRUE]

NewWorker == [pc |-> "idle", item |-> StopItem, i |-> 0]

\* What has happened so far; read_failed tells whether the sensor read of
\* the latest iteration raised.
NewHist ==
    [ticks |-> 0, created |-> 0, enqueued |-> <<>>, started |-> <<>>,
     outcome |-> <<>>, attempts |-> <<>>, read_failed |-> FALSE]

DaemonInit ==
    /\ now = StartTime
    /\ running = TRUE
    /\ mon \in {[NewMonitor EXCEPT !.smtp_complete = c] : c \in BOOLEAN}
    /\ mon_pc = "loop"
    /\ alert_queue = <<>>
    /\ closed = {}
    /\ worker = NewWorker
    /\ hist = NewHist

DaemonIdle ==
    /\ now = StartTime
    /\ running = TRUE
    /\ mon = NewMonitor
    /\ mon_pc = "loop"
    /\ alert_queue = <<>>
    /\ closed = {}
    /\ worker = NewWorker
    /\ hist = NewHist

\* The counters and cooldown stamps after lines 398-433 of one iteration,
\* with the event type chosen (<<>> when no alert is due).
alerts_of_tick(m, smoke, fire, current_time) ==
    LET fc == count_after(m.fire_count, fire)
        sc == count_after(m.smoke_count, smoke)
        should_alert_fire ==
            should_alert(fc, fire_threshold, m.last_fire_alert, current_time)
        should_alert_smoke ==
            should_alert(sc, smoke_threshold, m.last_smoke_alert, current_time)
    IN  IF should_alert_fire
        THEN [event |-> <<"FIRE">>,
              mon |-> [m EXCEPT !.fire_count = 0, !.smoke_count = sc,
                                !.last_fire_alert = <<current_time>>]]
        ELSE IF should_alert_smoke
        THEN [event |-> <<"SMOKE">>,
              mon |-> [m EXCEPT !.fire_count = fc, !.smoke_count = 0,
                                !.last_smoke_alert = <<current_time>>]]
        ELSE [event |-> <<>>,
              mon |-> [m EXCEPT !.fire_count = fc, !.smoke_count = sc]]

\* send_alert: the dict put on the queue.  zip_bytes is the BytesIO object
\* of save_event, known by the alert's id (closed holds the ids of the
\* objects already closed); entries is list(self.buffer).
alert_item(id, event_type, entries, created_at) ==
    [kind |-> "alert", id |-> id, event_type |-> event_type,
     entries |-> entries, created_at |-> created_at]

\* One iteration of monitor_loop, up to the put of send_alert inside
\* save_event's with-block (lines 377-449 and 317-345).  The clock moves on
\* by the time since the iteration before.
MonitorTick ==
    /\ mon_pc = "loop"
    /\ running
    /\ hist.ticks < MaxTicks
    /\ \E gap \in TickGaps, captured \in BOOLEAN, sensors_ok \in BOOLEAN,
          mq2 \in Levels, flame \in Levels, save \in SaveOutcomes :
          LET ts == now + gap
              smoke == read(TRUE, mq2)
              fire == read(TRUE, flame)
              \* the entry, known by the number of the iteration that made it
              entry == [ts |-> hist.ticks + 1]
              buf == deque_append(mon.buffer, BufferSize, entry)
              a == alerts_of_tick(mon, smoke, fire, ts)
              m == [a.mon EXCEPT !.buffer = buf]
              id == hist.created + 1
          IN  /\ now' = ts
              /\ IF ~captured
                 THEN \* roi is None: sleep(1); continue
                      /\ hist' = [hist EXCEPT !.ticks = @ + 1,
                                              !.read_failed = FALSE]
                      /\ UNCHANGED <<mon, mon_pc, alert_queue>>
                 ELSE IF ~sensors_ok
                 THEN \* self.mq2.value or self.flame.value raises: the
                      \* except clause of lines 454-457 logs and sleeps
                      /\ hist' = [hist EXCEPT !.ticks = @ + 1,
                                              !.read_failed = TRUE]
                      /\ UNCHANGED <<mon, mon_pc, alert_queue>>
                 ELSE IF a.event = <<>>
                 THEN /\ mon' = m
                      /\ hist' = [hist EXCEPT !.ticks = @ + 1,
                                              !.read_failed = FALSE]
                      /\ UNCHANGED <<mon_pc, alert_queue>>
                 ELSE /\ id <= MaxAlerts
                      /\ mon' = m
                      /\ IF save = "saved"
                         THEN /\ alert_queue' =
                                   Append(alert_queue,
                                          alert_item(id, a.event[1], buf, ts))
                              /\ mon_pc' = "in_with"
                              /\ hist' = [hist EXCEPT !.ticks = @ + 1,
                                                      !.read_failed = FALSE,
                                                      !.created = id,
                                                      !.enqueued = Append(@, id)]
                         ELSE \* save_event returns or raises before send_alert
                              /\ hist' = [hist EXCEPT !.ticks = @ + 1,
                                                      !.read_failed = FALSE,
                                                      !.created = id]
                              /\ UNCHANGED <<mon_pc, alert_queue>>
    /\ UNCHANGED <<running, closed, worker>>
    /\ UNCHANGED notDaemonVars

\* The rest of save_event after send_alert returned: the with-block ends
\* and closes the BytesIO; lines 347-351 count the saved images, and past
\* max_saved_images the same call goes on into self._cleanup_old_files().
SaveEventExit ==
    /\ mon_pc = "in_with"
    /\ LET id == hist.enqueued[Len(hist.enqueued)]
           n == mon.saved_image_count + Len(mon.buffer)
       IN  /\ closed' = closed \cup {id}
           /\ mon' = [mon EXCEPT !.saved_image_count = n]
           /\ mon_pc' = IF n > max_saved_images
                        THEN "in_cleanup_old_files" ELSE "loop"
    /\ UNCHANGED <<now, running, alert_queue, worker, hist>>
    /\ UNCHANGED notDaemonVars

\* Lines 352-353: _cleanup_old_files() returns to save_event, which resets
\* the count and returns to monitor_loop.
CleanupOldFilesReturn ==
    /\ mon_pc = "in_cleanup_old_files"
    /\ mon' = [mon EXCEPT !.saved_image_count = 0]
    /\ mon_pc' = "loop"
    /\ UNCHANGED <<now, running, alert_queue, closed, worker, hist>>
    /\ UNCHANGED notDaemonVars

\* signal_handler: SIGTERM / SIGINT.
SignalHandler ==
    /\ running
    /\ running' = FALSE
    /\ UNCHANGED <<now, mon, mon_pc, alert_queue, closed, worker, hist>>
    /\ UNCHANGED notDaemonVars

\* `while running` fails: monitor_loop returns, and cleanup() puts the
\* sentinel on the queue, joins the worker for at most 5 s and closes the
\* camera.
Cleanup ==
    /\ mon_pc = "loop"
    /\ ~running
    /\ alert_queue' = Append(alert_queue, StopItem)
    /\ mon_pc' = "done"
    /\ UNCHANGED <<now, running, mon, closed, worker, hist>>
    /\ UNCHANGED notDaemonVars

\* main() returns after cleanup(): join(timeout=5) returned, because the
\* worker ended or because the 5 s ran out with the worker still in a
\* delivery (its retries sleep 5 s each), and the process ends, taking
\* the daemon thread with it.
ProcessExit ==
    /\ mon_pc = "done"
    /\ worker.pc \in {"exited", "sending"}
    /\ mon_pc' = "exited"
    /\ worker' = IF worker.pc = "exited" THEN worker
                 ELSE [worker EXCEPT !.pc = "killed"]
    /\ UNCHANGED <<now, running, mon, alert_queue, closed, hist>>
    /\ UNCHANGED notDaemonVars

\* _alert_worker: where the worker goes after attempt i (0-based) failed:
\* it sleeps and retries, or the last failure is raised, caught by
\* _send_alert_internal and logged, and the worker waits for the next item.
after_failure_dies(i) ==
    IF i < retry_count - 1 THEN "sending" ELSE "exited"

after_failure(i) ==
    IF i < retry_count - 1 THEN "sending" ELSE "idle"

\* _alert_worker: which of the queued items get() returns.
next_index_lifo(q) == Len(q)

next_index(q) == 1

RemoveAt(q, k) == [j \in 1..(Len(q) - 1) |-> IF j < k THEN q[j] ELSE q[j + 1]]

\* _alert_worker takes an item: the sentinel ends it; for an alert
\* _send_alert_internal runs up to part.set_payload(zip_bytes.getvalue()),
\* which raises ValueError when the BytesIO is closed.
WorkerGet ==
    /\ worker.pc = "idle"
    /\ alert_queue # <<>>
    /\ LET k == next_index(alert_queue)
           item == alert_queue[k]
       IN  /\ alert_queue' = RemoveAt(alert_queue, k)
           /\ IF item.kind = "stop"
              THEN /\ worker' = [pc |-> "exited", item |-> item, i |-> 0]
                   /\ UNCHANGED hist
              ELSE IF ~mon.smtp_complete
              THEN /\ worker' = [pc |-> "idle", item |-> item, i |-> 0]
                   /\ hist' = [hist EXCEPT
                                 !.started = Append(@, item.id),
                                 !.outcome = @ @@ (item.id :> "skipped"),
                                 !.attempts = @ @@ (item.id :> 0)]
              ELSE IF item.id \in closed
              THEN /\ worker' = [pc |-> "idle", item |-> item, i |-> 0]
                   /\ hist' = [hist EXCEPT
                                 !.started = Append(@, item.id),
                                 !.outcome = @ @@ (item.id :> "error"),
                                 !.attempts = @ @@ (item.id :> 0)]
              ELSE /\ worker' = [pc |-> "sending", item |-> item, i |-> 0]
                   /\ hist' = [hist EXCEPT
                                 !.started = Append(@, item.id),
                                 !.attempts = @ @@ (item.id :> 0)]
    /\ UNCHANGED <<now, running, mon, mon_pc, closed>>
    /\ UNCHANGED notDaemonVars

\* One pass of the retry loop of _send_alert_internal: the SMTP exchange
\* succeeds or raises.
WorkerSend ==
    /\ worker.pc = "sending"
    /\ \E sent \in BOOLEAN :
          LET id == worker.item.id
          IN  IF sent
              THEN /\ worker' = [worker EXCEPT !.pc = "idle"]
                   /\ hist' = [hist EXCEPT
                                 !.attempts = [@ EXCEPT ![id] = @ + 1],
                                 !.outcome = @ @@ (id :> "sent")]
              ELSE /\ worker' = [worker EXCEPT !.pc = after_failure(worker.i),
                                               !.i = @ + 1]
                   /\ hist' = [hist EXCEPT
                                 !.attempts = [@ EXCEPT ![id] = @ + 1],
                                 !.outcome =
                                    IF worker.i < retry_count - 1
                                    THEN @ ELSE @ @@ (id :> "failed")]
    /\ UNCHANGED <<now, running, mon, mon_pc, alert_queue, closed>>
    /\ UNCHANGED notDaemonVars

---------------------------------------------------------------------------
(* src/src/core/monitor.py with src/src/alerts/alert_manager.py            *)

cooldown_minutes == 5            \* config.alerts.cooldown_minutes
config_alerts_max_retries == 3   \* config.alerts.max_retries
alert_history_maxlen == 100      \* deque(maxlen=100)
interval == 5                    \* config.monitor.interval

cooldown_period == cooldown_minutes * 60

\* _monitor_loop sleeps max(0, interval - elapsed): a tick starts interval
\* or more after the one before.
CoreGaps == {interval, LongGap}

\* The order in which _initialize_sensors registers the sensors, which is
\* the order read_all and check_alerts go through them.
SensorOrder == <<"smoke_1", "flame_1">>

\* sensor.sensor_type.value
sensor_type(sensor_id) == IF sensor_id = "smoke_1" THEN "smoke" ELSE "flame"

\* What the driver does during one read_with_retry call of a tick: it yields
\* a level at the first attempt (the faults are explored in SpecSensors).
CoreScripts == { <<l>> : l \in Levels }

\* dict.get(key, default)
dict_get(d, key, default) == IF key \in DOMAIN d THEN d[key] ELSE default

\* d[key] = value
dict_set(d, key, value) ==
    [k \in DOMAIN d \cup {key} |-> IF k = key THEN value ELSE d[k]]

\* MonitorSystem._check_alert_cooldown
check_alert_cooldown_off(alert_cooldowns, sensor_id, current_time) ==
    TRUE

check_alert_cooldown(alert_cooldowns, sensor_id, current_time) ==
    LET last_alert == dict_get(alert_cooldowns, sensor_id, 0)
    IN  (current_time - last_alert) >= cooldown_period

\* AlertManager._check_cooldown; cooldowns maps an alert type to the time
\* its last alert was sent.
check_cooldown(cooldowns, alert_type, t) ==
    LET last_sent == dict_get(cooldowns, alert_type, <<>>)
    IN  IF last_sent = <<>> THEN TRUE
        ELSE t - last_sent[1] >= cooldown_period

\* SensorManager.read_all: every sensor's read_with_retry, which leaves its
\* mark on error_count and status.
read_all(ss, scripts) ==
    [s \in SensorIds |->
        LET r == read_with_retry(ss[s], scripts[s])
        IN  [ss[s] EXCEPT !.error_count = r.error_count, !.status = r.status]]

\* SensorManager.check_alerts: is_triggered of every sensor; yields the
\* sensors after the calls and the ids of those in alert state, in order.
check_alerts(ss, scripts) ==
    LET call == [s \in SensorIds |-> is_triggered(ss[s], scripts[s])]
    IN  [sensors |-> [s \in SensorIds |-> call[s].sensor],
         alerts |-> SelectSeq(SensorOrder, LAMBDA s : call[s].result)]

\* MonitorSystem._handle_alerts from the k-th alert sensor on.  The put that
\* asyncio.create_task schedules is taken to reach the queue, in order.
\* An alert is known by its number, status.total_alerts when it was made.
RECURSIVE handle_alerts(_, _, _, _)
handle_alerts(c, alert_sensors, k, current_time) ==
    IF k > Len(alert_sensors) THEN c
    ELSE LET sensor_id == alert_sensors[k]
             alert_data == [id |-> c.total_alerts + 1,
                            sensor_id |-> sensor_id,
                            sensor_type |-> sensor_type(sensor_id),
                            timestamp |-> current_time]
         IN  IF ~check_alert_cooldown(c.alert_cooldowns, sensor_id, current_time)
             THEN handle_alerts(c, alert_sensors, k + 1, current_time)
             ELSE handle_alerts(
                      [c EXCEPT !.alert_queue = Append(@, alert_data),
                                !.alert_cooldowns =
                                    dict_set(@, sensor_id, current_time),
                                !.total_alerts = @ + 1,
                                !.last_alert_time = <<current_time>>],
                      alert_sensors, k + 1, current_time)

\* CameraManager.get_buffer_images
get_buffer_images(buf) ==
    LET fs == get_frames(buf, <<>>)
    IN  [i \in DOMAIN fs |-> fs[i].data]

\* MonitorSystem.__init__ and start(); recipients says whether
\* config.alerts.recipients is non-empty.
NewCore ==
    [running |-> TRUE, alert_cooldowns |-> <<>>, alert_queue |-> <<>>,
     alert_history |-> <<>>, total_alerts |-> 0, last_alert_time |-> <<>>]

NewManager(recipients) ==
    [alerts |-> <<>>, cooldowns |-> <<>>, alert_counts |-> <<>>,
     recipients |-> recipients]

NewProc == [pc |-> "idle", alert_data |-> <<>>, images |-> <<>>]

\* The history: ticks and frames so far; for every alert made, its data and
\* the buffer images at that moment; the sensors in alert state at the last
\* tick; the alerts the dispatcher is done with, the images packaged and
\* the send_email calls.
NewCoreHist ==
    [ticks |-> 0, nframes |-> 0, created |-> <<>>, last_alerts |-> <<>>,
     done |-> {}, images |-> <<>>, attempts |-> <<>>]

CoreInit ==
    /\ now = StartTime
    /\ sensors = [s \in SensorIds |->
                    NewSensor(IF s = "smoke_1" THEN 2 ELSE 3)]
    /\ observed = [s \in SensorIds |-> NewObserved]
    /\ frames = <<>>
    /\ max_size = BufferSize
    /\ appended = <<>>
    /\ snapshot = [taken |-> FALSE, frames |-> <<>>, history |-> <<>>,
                   shared |-> FALSE]
    /\ core = NewCore
    /\ manager \in {NewManager(r) : r \in BOOLEAN}
    /\ proc = NewProc
    /\ chist = NewCoreHist

CoreIdle ==
    /\ core = NewCore
    /\ manager = NewManager(TRUE)
    /\ proc = NewProc
    /\ chist = NewCoreHist

\* One iteration of _monitor_loop: read_all, check_alerts, _handle_alerts.
\* (capture_frame decodes a frame for nobody: it does not touch the buffer.)
CoreTick ==
    /\ core.running
    /\ chist.ticks < MaxTicks
    /\ \E gap \in CoreGaps, first \in [SensorIds -> CoreScripts],
          second \in [SensorIds -> CoreScripts] :
          LET current_time == now + gap
              checked == check_alerts(read_all(sensors, first), second)
              c == handle_alerts(core, checked.alerts, 1, current_time)
              made == SubSeq(c.alert_queue, Len(core.alert_queue) + 1,
                             Len(c.alert_queue))
              images == get_buffer_images(frames)
          IN  /\ c.total_alerts <= MaxAlerts
              /\ now' = current_time
              /\ sensors' = checked.sensors
              /\ core' = c
              /\ chist' =
                   [chist EXCEPT
                      !.ticks = @ + 1,
                      !.last_alerts = checked.alerts,
                      !.created = @ \o [i \in DOMAIN made |->
                                          [alert_data |-> made[i],
                                           images |-> images]]]
    /\ UNCHANGED <<frames, manager, proc>>
    /\ UNCHANGED notCoreVars

\* One pass of CameraManager._capture_loop, the camera thread: a frame is
\* captured and added to the buffer.  A frame's data is known by its number,
\* which stands for its timestamp as well.
CaptureLoop ==
    /\ core.running
    /\ chist.nframes < MaxFrames
    /\ frames' = add_frame(frames, max_size, chist.nframes + 1,
                           chist.nframes + 1)
    /\ chist' = [chist EXCEPT !.nframes = @ + 1]
    /\ UNCHANGED <<sensors, now, core, manager, proc>>
    /\ UNCHANGED notCoreVars

\* _process_alerts takes an alert from the queue, fetches the buffer images
\* and calls AlertManager.send_alert, which runs up to the send_email call:
\* it returns False at once when the alert type is in the manager's
\* cooldown or when there are no recipients.
ProcessGet ==
    /\ core.running
    /\ proc.pc = "idle"
    /\ core.alert_queue # <<>>
    /\ LET alert_data == Head(core.alert_queue)
           images == get_buffer_images(frames)
       IN  /\ core' = [core EXCEPT !.alert_queue = Tail(@)]
           /\ IF \/ ~check_cooldown(manager.cooldowns, alert_data.sensor_type, now)
                 \/ ~manager.recipients
              THEN /\ proc' = NewProc
                   /\ chist' = [chist EXCEPT
                                  !.done = @ \cup {alert_data.id},
                                  !.attempts = @ @@ (alert_data.id :> 0)]
              ELSE /\ proc' = [pc |-> "sending", alert_data |-> <<alert_data>>,
                               images |-> images]
                   /\ chist' = [chist EXCEPT
                                  !.images = @ @@ (alert_data.id :> images),
                                  !.attempts = @ @@ (alert_data.id :> 0)]
    /\ UNCHANGED <<sensors, frames, now, manager>>
    /\ UNCHANGED notCoreVars

\* EmailSender.send_email returns True or raises; send_alert stores the
\* Alert and _process_alerts notes a success in alert_history.
ProcessSend ==
    /\ proc.pc = "sending"
    /\ \E success \in BOOLEAN :
          LET alert_data == proc.alert_data[1]
              alert_type == alert_data.sensor_type
              alert == [metadata |-> alert_data, alert_type |-> alert_type,
                        sent |-> success,
                        error |-> IF success THEN "None" ELSE "EmailException"]
          IN  /\ manager' =
                    IF success
                    THEN [manager EXCEPT
                            !.alerts = Append(@, alert),
                            !.cooldowns = dict_set(@, alert_type, <<now>>),
                            !.alert_counts =
                                dict_set(@, alert_type,
                                         dict_get(@, alert_type, 0) + 1)]
                    ELSE [manager EXCEPT !.alerts = Append(@, alert)]
              /\ core' =
                    IF success
                    THEN [core EXCEPT !.alert_history =
                            deque_append(@, alert_history_maxlen, alert_data.id)]
                    ELSE core
              /\ chist' = [chist EXCEPT
                             !.done = @ \cup {alert_data.id},
                             !.attempts = [@ EXCEPT ![alert_data.id] = @ + 1]]
    /\ proc' = NewProc
    /\ UNCHANGED <<sensors, frames, now>>
    /\ UNCHANGED notCoreVars

\* _signal_handler / stop(): running goes False; the loops end.
CoreStop ==
    /\ core.running
    /\ core' = [core EXCEPT !.running = FALSE]
    /\ UNCHANGED <<sensors, frames, now, manager, proc, chist>>
    /\ UNCHANGED notCoreVars

---------------------------------------------------------------------------
(* src/src/core/monitor.py: start(), stop() and the thread of _monitor_loop *)

join_timeout == 5                \* self.monitor_thread.join(timeout=5)

\* The time one pass through the body of _monitor_loop takes.
TickDurations == {1, interval, interval + join_timeout + 1}

\* sleep_time = max(0, self.config.monitor.interval - elapsed)
sleep_time(elapsed) == IF interval - elapsed > 0 THEN interval - elapsed ELSE 0

\* MonitorSystem.__init__: not running, camera not opened, no thread.  The
\* history fields: ticks begun, errors raised in ticks, the sleep that
\* followed each of them, and whether stop() closed the camera while a
\* tick was in progress.
NewLife ==
    [running |-> FALSE, camera |-> "closed", errors |-> 0,
     main_pc |-> "constructed", monitor_pc |-> "not_started",
     loop_start |-> 0, wake_at |-> 0,
     ticks |-> 0, raised |-> 0, error_sleeps |-> <<>>, cut |-> FALSE]

LifeInit ==
    /\ now = StartTime
    /\ life = NewLife

LifeIdle == life = NewLife

\* start(): running, camera_manager.start(), the monitor thread starts.
MonitorStart ==
    /\ life.main_pc = "constructed"
    /\ ~life.running
    /\ life' = [life EXCEPT !.running = TRUE, !.camera = "open",
                            !.main_pc = "running", !.monitor_pc = "loop_test"]
    /\ UNCHANGED now
    /\ UNCHANGED notLifeVars

\* while self.running: loop_start = time.time()
MonitorLoopTest ==
    /\ life.monitor_pc = "loop_test"
    /\ life.running => life.ticks < MaxTicks
    /\ life' = IF life.running
               THEN [life EXCEPT !.monitor_pc = "in_tick",
                                 !.loop_start = now, !.ticks = @ + 1]
               ELSE [life EXCEPT !.monitor_pc = "returned"]
    /\ UNCHANGED now
    /\ UNCHANGED notLifeVars

\* The try block of one iteration and what follows it: an exception is
\* caught and counted; then elapsed and sleep_time are computed.
MonitorLoopBody ==
    /\ life.monitor_pc = "in_tick"
    /\ \E duration \in TickDurations, raises \in BOOLEAN :
          LET t == now + duration
              elapsed == t - life.loop_start
          IN  /\ now' = t
              /\ life' = [life EXCEPT
                            !.errors = IF raises THEN @ + 1 ELSE @,
                            !.raised = IF raises THEN @ + 1 ELSE @,
                            !.error_sleeps =
                                IF raises THEN Append(@, sleep_time(elapsed))
                                ELSE @,
                            !.wake_at = t + sleep_time(elapsed),
                            !.monitor_pc = "sleeping"]
    /\ UNCHANGED notLifeVars

\* time.sleep(sleep_time) returns.
MonitorLoopSleep ==
    /\ life.monitor_pc = "sleeping"
    /\ now' = IF life.wake_at > now THEN life.wake_at ELSE now
    /\ life' = [life EXCEPT !.monitor_pc = "loop_test"]
    /\ UNCHANGED notLifeVars

\* _signal_handler -> stop(), in the main thread: running goes False and
\* camera_manager.stop() closes the camera, wherever the monitor thread
\* is; then the join begins.
MonitorStop ==
    /\ life.main_pc = "running"
    /\ life.running
    /\ life' = [life EXCEPT !.running = FALSE, !.camera = "closed",
                            !.main_pc = "joining",
                            !.cut = (life.monitor_pc = "in_tick")]
    /\ UNCHANGED now
    /\ UNCHANGED notLifeVars

\* self.monitor_thread.join(timeout=5) returns: the thread has returned,
\* or the timeout ran out with the thread still in its iteration; run()
\* then ends and the process exits, which ends the daemon thread.
MonitorJoin ==
    /\ life.main_pc = "joining"
    /\ life.monitor_pc \in {"returned", "in_tick"}
    /\ life' = [life EXCEPT
                  !.main_pc = "stopped",
                  !.monitor_pc = IF @ = "returned" THEN @ ELSE "killed"]
    /\ UNCHANGED now
    /\ UNCHANGED notLifeVars

---------------------------------------------------------------------------
(* src/src/core/monitor.py: sequences of start() and stop() calls, and     *)
(* src/src/daemon/service.py: _restart_monitor                             *)

restart_wait == 5     \* _restart_monitor: time.sleep(5)

\* A thread of _monitor_loop: the MonitorSystem object it belongs to, where
\* it is, until when, when its iteration began, and its iterations so far.
\* A thread just started is about to test `while self.running`.
new_thread(gen, t) ==
    [gen |-> gen, pc |-> "sleeping", until |-> t, loop_start |-> t,
     ticks |-> 0]

\* MonitorSystem.__init__ of the first object: not running, no thread.
\* gen numbers the MonitorSystem objects, monitor_thread is the index of
\* self.monitor_thread (0 for None), main_pc says where the calling
\* thread is, calls counts its calls.
NewSys ==
    [running |-> FALSE, gen |-> 1, monitor_thread |-> 0, threads |-> <<>>,
     main_pc |-> "idle", deadline |-> 0, calls |-> 0]

SysInit ==
    /\ now = StartTime
    /\ sys = NewSys

SysIdle == sys = NewSys

\* self.running as the thread t reads it: the flag of its own object; an
\* object that _restart_monitor replaced was stopped before.
running_of(t) == sys.threads[t].gen = sys.gen /\ sys.running

\* start(): returns at once when running; sets the flag and starts a new
\* thread of _monitor_loop otherwise.
start(y, t) ==
    IF y.running THEN y
    ELSE [y EXCEPT !.running = TRUE,
                   !.threads = Append(@, new_thread(y.gen, t)),
                   !.monitor_thread = Len(y.threads) + 1]

\* stop() up to the join: returns at once when not running; clears the
\* flag and joins self.monitor_thread for at most join_timeout otherwise.
stop(y, t, joining_pc, after_pc) ==
    IF ~y.running THEN [y EXCEPT !.main_pc = after_pc]
    ELSE IF y.monitor_thread = 0
    THEN [y EXCEPT !.running = FALSE, !.main_pc = after_pc]
    ELSE [y EXCEPT !.running = FALSE, !.main_pc = joining_pc,
                   !.deadline = t + join_timeout]

\* A call of start().
SysStart ==
    /\ sys.main_pc = "idle"
    /\ sys.calls < MaxCalls
    /\ Len(sys.threads) < MaxThreads
    /\ sys' = [start(sys, now) EXCEPT !.calls = @ + 1]
    /\ UNCHANGED now
    /\ UNCHANGED notSysVars

\* A call of stop().
SysStop ==
    /\ sys.main_pc = "idle"
    /\ sys.calls < MaxCalls
    /\ sys' = [stop(sys, now, "joining", "idle") EXCEPT !.calls = @ + 1]
    /\ UNCHANGED now
    /\ UNCHANGED notSysVars

\* The thread t has something to do now: its iteration or its sleep is
\* over (a thread whose iterations are used up stays where it is).
ThreadDue(t) ==
    /\ sys.threads[t].pc \in {"in_tick", "sleeping"}
    /\ sys.threads[t].until <= now
    /\ (sys.threads[t].pc = "sleeping" /\ running_of(t))
          => sys.threads[t].ticks < MaxTicks

\* self.monitor_thread.join(timeout=5) can return: the thread has returned,
\* or the timeout has run out with the thread still at work.
JoinDue ==
    /\ sys.main_pc \in {"joining", "restart_joining"}
    /\ \/ sys.threads[sys.monitor_thread].pc = "returned"
       \/ now >= sys.deadline /\ ~ThreadDue(sys.monitor_thread)

\* stop() returns from the join; in _restart_monitor the sleep follows.
SysJoin ==
    /\ JoinDue
    /\ sys' = IF sys.main_pc = "joining"
              THEN [sys EXCEPT !.main_pc = "idle"]
              ELSE [sys EXCEPT !.main_pc = "restart_sleeping",
                               !.deadline = now + restart_wait]
    /\ UNCHANGED now
    /\ UNCHANGED notSysVars

\* DaemonService._restart_monitor begins: self.monitor_system.stop(), then
\* time.sleep(5).
SysRestart ==
    /\ sys.main_pc = "idle"
    /\ sys.calls < MaxCalls
    /\ Len(sys.threads) < MaxThreads
    /\ sys' = [stop(sys, now, "restart_joining", "restart_sleeping")
                 EXCEPT !.calls = @ + 1,
                        !.deadline = IF sys.running /\ sys.monitor_thread # 0
                                     THEN now + join_timeout
                                     ELSE now + restart_wait]
    /\ UNCHANGED now
    /\ UNCHANGED notSysVars

RestartDue == sys.main_pc = "restart_sleeping" /\ now >= sys.deadline

\* _restart_monitor after the sleep: a new MonitorSystem is constructed and
\* started.
SysRestartStart ==
    /\ RestartDue
    /\ sys' = [start([sys EXCEPT !.gen = @ + 1, !.running = FALSE,
                                 !.monitor_thread = 0], now)
                 EXCEPT !.main_pc = "idle"]
    /\ UNCHANGED now
    /\ UNCHANGED notSysVars

\* _monitor_loop in thread t: the end of the body of an iteration, followed
\* by the sleep; or the end of the sleep, followed by the test of
\* self.running and the next iteration or the return.
ThreadStep(t) ==
    /\ ThreadDue(t)
    /\ LET th == sys.threads[t]
       IN  IF th.pc = "in_tick"
           THEN sys' = [sys EXCEPT !.threads[t] =
                          [th EXCEPT !.pc = "sleeping",
                                     !.until = now + sleep_time(now - th.loop_start)]]
           ELSE IF running_of(t)
           THEN \E duration \in TickDurations :
                   sys' = [sys EXCEPT !.threads[t] =
                             [th EXCEPT !.pc = "in_tick", !.loop_start = now,
                                        !.until = now + duration,
                                        !.ticks = @ + 1]]
           ELSE sys' = [sys EXCEPT !.threads[t] = [th EXCEPT !.pc = "returned"]]
    /\ UNCHANGED now
    /\ UNCHANGED notSysVars

\* The instants at which something will be due.
PendingTimes ==
    {sys.threads[t].until : t \in {u \in DOMAIN sys.threads :
                                     /\ sys.threads[u].pc \in {"in_tick", "sleeping"}
                                     /\ sys.threads[u].until > now}}
    \cup (IF sys.main_pc # "idle" /\ sys.deadline > now
          THEN {sys.deadline} ELSE {})

\* Time passes to the next such instant, when nothing is due now.
SysAdvance ==
    /\ \A t \in DOMAIN sys.threads : ~ThreadDue(t)
    /\ ~JoinDue
    /\ ~RestartDue
    /\ PendingTimes # {}
    /\ now' = CHOOSE m \in PendingTimes : \A n \in PendingTimes : m <= n
    /\ UNCHANGED sys
    /\ UNCHANGED notSysVars

---------------------------------------------------------------------------
(* src/src/daemon/service.py: DaemonService, with the signal handlers of    *)
(* src/src/core/monitor.py                                                 *)

ShutdownSignals == {"SIGTERM", "SIGINT"}

\* DaemonService.__init__: status STOPPED, no monitor system, and
\* _register_signal_handlers makes _handle_signal the handler of SIGTERM
\* and SIGINT.  handler names the object whose method signal.signal
\* installed last; main_pc says where the main thread is; delivered,
\* while_running, health and loops are history: the signals delivered,
\* whether one arrived in status RUNNING, the result of the last
\* _health_check and the iterations of _run_loop (counted up to MaxLoops).
NewSvc ==
    [status |-> "STOPPED", stop_requested |-> FALSE, handler |-> "service",
     monitor_system |-> "None", pid_file |-> FALSE, main_pc |-> "constructed",
     delivered |-> <<>>, while_running |-> FALSE, health |-> TRUE,
     loops |-> 0]

SvcInit == svc = NewSvc

SvcIdle == svc = NewSvc

\* MonitorSystem.stop() on self.monitor_system (None, "running" or
\* "stopped").
monitor_stop(m) == IF m = "running" THEN "stopped" ELSE m

\* DaemonService.stop(): only in status RUNNING; the monitor system is
\* stopped, _cleanup removes the PID file, the status becomes STOPPED.
service_stop(v) ==
    IF v.status # "RUNNING" THEN v
    ELSE [v EXCEPT !.monitor_system = monitor_stop(@), !.pid_file = FALSE,
                   !.status = "STOPPED"]

\* DaemonService._handle_signal for SIGTERM and SIGINT.
handle_signal(v) == service_stop([v EXCEPT !.stop_requested = TRUE])

\* MonitorSystem._signal_handler: self.stop().
signal_handler(v) == [v EXCEPT !.monitor_system = monitor_stop(@)]

\* start() up to the construction of the monitor system: refused unless
\* STOPPED; else STARTING, and the PID file is written.
SvcStart ==
    /\ svc.main_pc = "constructed"
    /\ svc' = IF svc.status # "STOPPED"
              THEN [svc EXCEPT !.main_pc = "returned"]
              ELSE [svc EXCEPT !.status = "STARTING", !.pid_file = TRUE,
                               !.main_pc = "starting"]
    /\ UNCHANGED notSvcVars

\* start() goes on: MonitorSystem(self.config), whose __init__ calls
\* _setup_signal_handlers, and monitor_system.start(); then RUNNING and
\* _run_loop.  If the construction raises (_initialize_sensors), the
\* status is ERROR and the finally clause follows.
SvcStartMonitor ==
    /\ svc.main_pc = "starting"
    /\ \E constructed \in BOOLEAN :
          svc' = IF constructed
                 THEN [svc EXCEPT !.handler = "monitor",
                                  !.monitor_system = "running",
                                  !.status = "RUNNING", !.main_pc = "run_loop"]
                 ELSE [svc EXCEPT !.handler = "monitor", !.status = "ERROR",
                                  !.main_pc = "cleanup"]
    /\ UNCHANGED notSvcVars

\* _run_loop: the test of stop_requested, and one iteration: _health_check
\* and time.sleep(1).
SvcRunLoop ==
    /\ svc.main_pc = "run_loop"
    /\ IF svc.stop_requested
       THEN svc' = [svc EXCEPT !.main_pc = "cleanup"]
       ELSE \E healthy \in BOOLEAN :
               svc' = [svc EXCEPT !.health = healthy,
                                  !.loops = IF @ < MaxLoops THEN @ + 1 ELSE @]
    /\ UNCHANGED notSvcVars

\* The finally clause of start(): _cleanup removes the PID file.
SvcCleanup ==
    /\ svc.main_pc = "cleanup"
    /\ svc' = [svc EXCEPT !.pid_file = FALSE, !.main_pc = "returned"]
    /\ UNCHANGED notSvcVars

\* SIGTERM or SIGINT is delivered to the process: the handler installed
\* last runs in the main thread, between two of its steps.
SvcSignal ==
    /\ svc.main_pc # "returned"
    /\ Len(svc.delivered) < MaxSignals
    /\ \E sig \in ShutdownSignals :
          LET v == [svc EXCEPT !.delivered = Append(@, sig),
                               !.while_running =
                                   @ \/ svc.status = "RUNNING"]
          IN  svc' = IF svc.handler = "service" THEN handle_signal(v)
                     ELSE signal_handler(v)
    /\ UNCHANGED notSvcVars

---------------------------------------------------------------------------
(* src/monitor_daemon.py and src/monitor_optimized.py: the loop of main()   *)
(* that restarts the monitor; the two files have the same code             *)

max_restarts == 10    \* the module's global max_restarts

\* The module's globals running and restart_count when main() begins.
\* main_pc says where main() is; failures and last are history: the
\* iterations that ended in a failed initialisation, an exception or a
\* restart, and how the latest iteration ended.
NewSup ==
    [running |-> TRUE, restart_count |-> 0, main_pc |-> "loop_test",
     failures |-> 0, last |-> "none"]

SupInit == sup = NewSup

SupIdle == sup = NewSup

\* while running and restart_count < max_restarts
supervise_inclusive(is_running, count) ==
    is_running /\ count <= max_restarts

supervise(is_running, count) == is_running /\ count < max_restarts

\* The test of the while loop: the next iteration begins or main() returns.
SupLoopTest ==
    /\ sup.main_pc = "loop_test"
    /\ sup' = [sup EXCEPT !.main_pc =
                  IF supervise(sup.running, sup.restart_count)
                  THEN "initialize" ELSE "returned"]
    /\ UNCHANGED notSupVars

\* MonitorSystem() and monitor.initialize(): the constructor or initialize
\* raises (except clause: restart_count += 1, sleep(10)), initialize
\* returns False (restart_count += 1, sleep(10), continue), or it returns
\* True and monitor_loop begins.
SupInitialize ==
    /\ sup.main_pc = "initialize"
    /\ \E result \in {"raises", "False", "True"} :
          sup' = IF result = "True"
                 THEN [sup EXCEPT !.main_pc = "monitor_loop"]
                 ELSE [sup EXCEPT !.restart_count = @ + 1,
                                  !.failures = @ + 1,
                                  !.last = IF result = "raises" THEN "crash"
                                           ELSE "init_failed",
                                  !.main_pc = "sleeping"]
    /\ UNCHANGED notSupVars

\* monitor_loop() ends and cleanup() runs: the loop ended because running
\* is False, or by its break with running still True, or an exception
\* left it (except clause of main).  After cleanup(): if running:
\* restart_count += 1, sleep(5).
SupMonitorLoop ==
    /\ sup.main_pc = "monitor_loop"
    /\ \E ending \in {"returns", "raises"} :
          sup' = IF ending = "raises"
                 THEN [sup EXCEPT !.restart_count = @ + 1,
                                  !.failures = @ + 1, !.last = "crash",
                                  !.main_pc = "sleeping"]
                 ELSE IF sup.running
                 THEN [sup EXCEPT !.restart_count = @ + 1,
                                  !.failures = @ + 1, !.last = "restart",
                                  !.main_pc = "sleeping"]
                 ELSE [sup EXCEPT !.last = "shutdown",
                                  !.main_pc = "loop_test"]
    /\ UNCHANGED notSupVars

\* time.sleep(10) or time.sleep(5) ends; back to the test of the loop.
SupSleep ==
    /\ sup.main_pc = "sleeping"
    /\ sup' = [sup EXCEPT !.main_pc = "loop_test"]
    /\ UNCHANGED notSupVars

\* signal_handler: SIGTERM or SIGINT clears running, wherever main() is.
SupSignal ==
    /\ sup.main_pc # "returned"
    /\ sup.running
    /\ sup' = [sup EXCEPT !.running = FALSE]
    /\ UNCHANGED notSupVars

---------------------------------------------------------------------------
(* src/src/daemon/watchdog.py: MonitorWatchdog                             *)

max_daily_restarts == 5     \* self.max_daily_restarts

\* How `sudo systemctl restart` and the check after it can end: return
\* code 0 with the service active afterwards or not, another return code,
\* or subprocess.run raises.
RestartResults == {"active", "inactive", "failed", "raises"}

\* MonitorWatchdog.__init__, on day 1.  last_restart_date is <<>> for None.
\* today is the calendar date; checks, commands and last are history: the
\* health checks and the restart commands run on that date, and what the
\* latest restart_service call did.
NewWd ==
    [restart_count |-> 0, last_restart_date |-> <<>>, today |-> 1,
     checks |-> 0, commands |-> 0,
     last |-> [called |-> FALSE, ran |-> FALSE, returned |-> FALSE,
               count_before |-> 0]]

WdInit == wd = NewWd

WdIdle == wd = NewWd

\* MonitorWatchdog.restart_service on the date today, the restart command
\* ending as result says: the fields after the call, whether the command
\* was run, and the value returned.
restart_service(w, today, result) ==
    LET count == IF w.last_restart_date # <<today>> THEN 0
                 ELSE w.restart_count
    IN  IF count >= max_daily_restarts
        THEN [restart_count |-> count, last_restart_date |-> <<today>>,
              ran |-> FALSE, returned |-> FALSE, count_before |-> count]
        ELSE [restart_count |-> IF result \in {"active", "inactive"}
                                THEN count + 1 ELSE count,
              last_restart_date |-> <<today>>,
              ran |-> TRUE, returned |-> (result = "active"),
              count_before |-> count]

\* perform_health_check, once per check_interval: with no issue nothing is
\* done; with an issue restart_service is called.
WdHealthCheck ==
    /\ wd.checks < MaxChecks
    /\ \E issues \in BOOLEAN, result \in RestartResults :
          IF ~issues
          THEN wd' = [wd EXCEPT !.checks = @ + 1, !.last.called = FALSE]
          ELSE LET r == restart_service(wd, wd.today, result)
               IN  wd' = [wd EXCEPT
                            !.restart_count = r.restart_count,
                            !.last_restart_date = r.last_restart_date,
                            !.checks = @ + 1,
                            !.commands = IF r.ran THEN @ + 1 ELSE @,
                            !.last = [called |-> TRUE, ran |-> r.ran,
                                      returned |-> r.returned,
                                      count_before |-> r.count_before]]
    /\ UNCHANGED notWdVars

\* Midnight: datetime.now().date() changes.
WdNextDay ==
    /\ wd.today < MaxDays
    /\ wd' = [wd EXCEPT !.today = @ + 1, !.checks = 0, !.commands = 0,
                        !.last.called = FALSE]
    /\ UNCHANGED notWdVars

---------------------------------------------------------------------------
(* src/monitor_optimized.py: OptimizedMonitorSystem                        *)

ALERT_COOLDOWN == 300        \* self.ALERT_COOLDOWN
OPT_CAP_INTERVAL == 10       \* self.CAP_INTERVAL
cleanup_period == 3600       \* the hourly storage cleanup of monitor_loop

\* The time the work of one iteration of monitor_loop takes.
OptLoopTimes == {1, LongGap}

\* Line 506: time.sleep(self.CAP_INTERVAL) ends the iteration, however long
\* its work took.
opt_sleep_time(loop_time) == OPT_CAP_INTERVAL

\* Lines 469-471: roi is None: time.sleep(1); continue
opt_retry_sleep == 1

\* should_send_alert: whether the alert may go out, and last_alert_time
\* after the call.
should_send_alert(last_alert_time, event_type, current_time) ==
    LET last_time == dict_get(last_alert_time, event_type, 0)
    IN  IF current_time - last_time >= ALERT_COOLDOWN
        THEN [ok |-> TRUE,
              last_alert_time |-> dict_set(last_alert_time, event_type,
                                           current_time)]
        ELSE [ok |-> FALSE, last_alert_time |-> last_alert_time]

\* queue.Queue.put and put_nowait on a queue of capacity maxsize: the queue
\* after the call, whether the item was accepted (put_nowait raises
\* queue.Full if not), and whether the caller is left waiting for room.
put(q, maxsize, item) ==
    IF Len(q) < maxsize
    THEN [queue |-> Append(q, item), accepted |-> TRUE, blocked |-> FALSE]
    ELSE [queue |-> q, accepted |-> FALSE, blocked |-> TRUE]

put_nowait_waits(q, maxsize, item) ==
    IF Len(q) < maxsize
    THEN [queue |-> Append(q, item), accepted |-> TRUE, blocked |-> FALSE]
    ELSE [queue |-> q, accepted |-> FALSE, blocked |-> TRUE]

put_nowait(q, maxsize, item) ==
    IF Len(q) < maxsize
    THEN [queue |-> Append(q, item), accepted |-> TRUE, blocked |-> FALSE]
    ELSE [queue |-> q, accepted |-> FALSE, blocked |-> FALSE]

\* monitor_loop, line 485: the one event type of an iteration.
opt_event_type(smoke, fire) == IF smoke THEN "SMOKE" ELSE "FIRE"

\* OptimizedMonitorSystem.__init__ / initialize; mon_pc and email_pc say
\* where the monitor thread and the email_worker thread are.
NewOpt ==
    [running |-> TRUE, last_alert_time |-> <<>>, email_queue |-> <<>>,
     buffer |-> <<>>, last_cleanup_time |-> 0, smtp_complete |-> TRUE,
     mon_pc |-> "loop", email_pc |-> "waiting", email_item |-> StopItem]

\* The history: iterations, alerts that passed should_send_alert, those
\* put_nowait accepted and those it refused, those the worker took up, and
\* the SMTP sessions opened for each; the time the work of the latest
\* iteration took and the sleep that ended it.
NewOptHist ==
    [ticks |-> 0, passed |-> 0, enqueued |-> <<>>, dropped |-> <<>>,
     started |-> <<>>, attempts |-> <<>>, loop_time |-> 0, slept |-> 0]

OptInit ==
    /\ now = StartTime
    /\ opt \in {[NewOpt EXCEPT !.smtp_complete = c] : c \in BOOLEAN}
    /\ ohist = NewOptHist

OptIdle ==
    /\ opt = NewOpt
    /\ ohist = NewOptHist

\* One iteration of monitor_loop; save_event_optimized and
\* queue_alert_email run inside it.
OptTick ==
    /\ opt.running
    /\ opt.mon_pc = "loop"
    /\ ohist.ticks < MaxTicks
    /\ \E loop_time \in OptLoopTimes, captured \in BOOLEAN, mq2 \in Levels,
          flame \in Levels, save \in {"saved", "write_error"} :
          LET \* the sleep of the iteration before, then this one's work
              current_time == now + ohist.slept + loop_time
              smoke == read(TRUE, mq2)
              fire == read(TRUE, flame)
              entry == [ts |-> ohist.ticks + 1]
              buf == deque_append(opt.buffer, BufferSize, entry)
              event_type == opt_event_type(smoke, fire)
              alerting == (smoke \/ fire) /\ save = "saved"
              gate == should_send_alert(opt.last_alert_time, event_type,
                                        current_time)
              id == ohist.passed + 1
              email_data == [kind |-> "alert", id |-> id,
                             event_type |-> event_type, zip_bytes |-> buf,
                             timestamp |-> current_time]
              r == put_nowait(opt.email_queue, QueueMaxSize, email_data)
              cleanup_due == current_time - opt.last_cleanup_time > cleanup_period
              swept == IF cleanup_due THEN current_time
                       ELSE opt.last_cleanup_time
          IN  /\ now' = current_time
              /\ IF ~captured
                 THEN \* roi is None: sleep(1); continue
                      /\ opt' = opt
                      /\ ohist' = [ohist EXCEPT !.ticks = @ + 1,
                                                !.loop_time = loop_time,
                                                !.slept = opt_retry_sleep]
                 ELSE IF ~(alerting /\ gate.ok)
                 THEN /\ opt' = [opt EXCEPT !.buffer = buf,
                                            !.last_cleanup_time = swept]
                      /\ ohist' = [ohist EXCEPT
                                     !.ticks = @ + 1,
                                     !.loop_time = loop_time,
                                     !.slept = opt_sleep_time(loop_time)]
                 ELSE /\ opt' = [opt EXCEPT
                                   !.buffer = buf,
                                   !.last_alert_time = gate.last_alert_time,
                                   !.email_queue = r.queue,
                                   !.last_cleanup_time =
                                       IF r.blocked THEN @ ELSE swept,
                                   !.mon_pc = IF r.blocked
                                              THEN "blocked_in_put" ELSE "loop"]
                      /\ ohist' = [ohist EXCEPT
                                     !.ticks = @ + 1,
                                     !.loop_time = loop_time,
                                     !.slept = IF r.blocked THEN @
                                               ELSE opt_sleep_time(loop_time),
                                     !.passed = id,
                                     !.enqueued = IF r.accepted
                                                  THEN Append(@, id) ELSE @,
                                     !.dropped = IF r.accepted
                                                 THEN @ ELSE Append(@, id)]
    /\ UNCHANGED notOptVars

\* signal_handler of monitor_optimized.py
OptSignalHandler ==
    /\ opt.running
    /\ opt' = [opt EXCEPT !.running = FALSE]
    /\ UNCHANGED <<now, ohist>>
    /\ UNCHANGED notOptVars

\* monitor_loop has returned and cleanup() runs: with the email thread
\* alive it puts the sentinel with a blocking put and joins for at most
\* 5 s; otherwise it goes on to close the camera and main() returns.
OptCleanup ==
    /\ opt.mon_pc = "loop"
    /\ ~opt.running
    /\ LET r == put(opt.email_queue, QueueMaxSize, StopItem)
       IN  opt' = IF opt.email_pc = "exited"
                  THEN [opt EXCEPT !.mon_pc = "exited"]
                  ELSE [opt EXCEPT !.email_queue = r.queue,
                                   !.mon_pc = IF r.blocked
                                              THEN "blocked_in_cleanup"
                                              ELSE "joining"]
    /\ UNCHANGED <<now, ohist>>
    /\ UNCHANGED notOptVars

\* The blocking put of cleanup() goes through once the queue has room.
OptCleanupPut ==
    /\ opt.mon_pc = "blocked_in_cleanup"
    /\ Len(opt.email_queue) < QueueMaxSize
    /\ opt' = [opt EXCEPT !.email_queue = Append(@, StopItem),
                          !.mon_pc = "joining"]
    /\ UNCHANGED <<now, ohist>>
    /\ UNCHANGED notOptVars

\* join(timeout=5) returns, the worker having ended or not; the camera is
\* closed, main() returns and the daemon thread ends with the process.
OptJoinReturn ==
    /\ opt.mon_pc = "joining"
    /\ opt' = [opt EXCEPT !.mon_pc = "exited",
                          !.email_pc = IF @ = "exited" THEN @ ELSE "killed"]
    /\ UNCHANGED <<now, ohist>>
    /\ UNCHANGED notOptVars

\* email_worker: get() returns an item; None ends the worker, an alert
\* goes to _send_email_sync, which returns at once when the SMTP settings
\* are incomplete.
EmailGet ==
    /\ opt.email_pc = "waiting"
    /\ opt.email_queue # <<>>
    /\ LET email_data == Head(opt.email_queue)
       IN  IF email_data.kind = "stop"
           THEN /\ opt' = [opt EXCEPT !.email_queue = Tail(@),
                                      !.email_pc = "exited",
                                      !.email_item = email_data]
                /\ UNCHANGED ohist
           ELSE /\ opt' = [opt EXCEPT !.email_queue = Tail(@),
                                      !.email_pc = IF opt.smtp_complete
                                                   THEN "sending" ELSE "waiting",
                                      !.email_item = email_data]
                /\ ohist' = [ohist EXCEPT
                               !.started = Append(@, email_data.id),
                               !.attempts = @ @@ (email_data.id :> 0)]
    /\ UNCHANGED now
    /\ UNCHANGED notOptVars

\* _send_email_sync: the one SMTP session, which succeeds or raises; the
\* exception is logged and the worker goes back to the queue.
EmailSend ==
    /\ opt.email_pc = "sending"
    /\ \E sent \in BOOLEAN :
          ohist' = [ohist EXCEPT !.attempts[opt.email_item.id] = @ + 1]
    /\ opt' = [opt EXCEPT !.email_pc = "waiting"]
    /\ UNCHANGED now
    /\ UNCHANGED notOptVars

\* email_worker: `while running` fails and the worker ends.
EmailLoopExit ==
    /\ opt.email_pc = "waiting"
    /\ ~opt.running
    /\ opt' = [opt EXCEPT !.email_pc = "exited"]
    /\ UNCHANGED <<now, ohist>>
    /\ UNCHANGED notOptVars

---------------------------------------------------------------------------
(* Storage cleanup: StorageManager of src/monitor_optimized.py,            *)
(* StorageCleanup of src/storage_cleanup.py, _cleanup_old_files of         *)
(* src/monitor_daemon.py.  Times are seconds, sizes are units of the       *)
(* budget max_size_bytes.                                                  *)

max_age_days == 7
keep_recent_hours == 24

FileNames == 1..MaxFiles
FileSizes == {2, 9}
StorageGaps == {1, keep_recent_hours * 3600, max_age_days * 24 * 3600}

\* The directory without the files outside S.
Restrict(fs, S) == [n \in S |-> fs[n]]

RECURSIVE SumSizes(_, _)
SumSizes(fs, S) ==
    IF S = {} THEN 0
    ELSE LET n == CHOOSE x \in S : TRUE
         IN  fs[n].size + SumSizes(fs, S \ {n})

\* StorageManager.get_directory_size
get_directory_size(fs) == SumSizes(fs, DOMAIN fs)

\* cutoff_time = time.time() - (max_age_days * 24 * 3600)
cutoff_time(t, days) == t - days * 24 * 3600

\* The age test of all three variants: st_mtime < cutoff_time.
is_expired_at_cutoff(mtime, cutoff) == mtime <= cutoff

is_expired(mtime, cutoff) == mtime < cutoff

\* StorageManager.cleanup_old_files at time t; failing holds the files
\* whose unlink raises (the file is logged and skipped).
cleanup_old_files(fs, t, failing) ==
    Restrict(fs, {n \in DOMAIN fs :
                    ~(is_expired(fs[n].mtime, cutoff_time(t, max_age_days))
                      /\ n \notin failing)})

\* files_with_time.sort(): by (st_mtime, path), oldest first.
sorts_before(fs, a, b) ==
    \/ fs[a].mtime < fs[b].mtime
    \/ (fs[a].mtime = fs[b].mtime /\ a < b)

RECURSIVE sort_files(_, _)
sort_files(fs, S) ==
    IF S = {} THEN <<>>
    ELSE LET m == CHOOSE a \in S : \A b \in S \ {a} : sorts_before(fs, a, b)
         IN  <<m>> \o sort_files(fs, S \ {m})

\* The share of the budget the size policy of StorageManager cleans down
\* to: max_size_bytes * 0.8.
at_target_size(size) == 10 * size <= 8 * max_size_bytes

\* The deletion loop of StorageManager.cleanup_by_size from the k-th file.
RECURSIVE size_loop(_, _, _, _, _, _)
size_loop(fs, order, k, current_size, freed_bytes, failing) ==
    IF k > Len(order) \/ at_target_size(current_size - freed_bytes) THEN fs
    ELSE IF order[k] \in failing
    THEN size_loop(fs, order, k + 1, current_size, freed_bytes, failing)
    ELSE size_loop(Restrict(fs, DOMAIN fs \ {order[k]}), order, k + 1,
                   current_size, freed_bytes + fs[order[k]].size, failing)

\* A size policy that deletes the oldest file alone whenever the total is
\* above the target.
cleanup_by_size_oldest_only(fs, failing) ==
    LET current_size == get_directory_size(fs)
        order == sort_files(fs, DOMAIN fs)
    IN  IF at_target_size(current_size) \/ order[1] \in failing THEN fs
        ELSE Restrict(fs, DOMAIN fs \ {order[1]})

\* StorageManager.cleanup_by_size
cleanup_by_size(fs, failing) ==
    LET current_size == get_directory_size(fs)
    IN  IF current_size <= max_size_bytes THEN fs
        ELSE size_loop(fs, sort_files(fs, DOMAIN fs), 1, current_size, 0,
                       failing)

\* StorageManager.perform_cleanup: the directory after the age policy and
\* after both policies.
perform_cleanup(fs, t, failing) ==
    LET aged == cleanup_old_files(fs, t, failing)
    IN  [after_age |-> aged, after |-> cleanup_by_size(aged, failing)]

\* The orders in which rglob('*') can yield the files of S.
ScanOrders(S) ==
    {o \in [1..Cardinality(S) -> S] :
        \A i, j \in DOMAIN o : i # j => o[i] # o[j]}

\* The loop of StorageCleanup.cleanup_by_age from the k-th file rglob
\* yields.  unreadable holds the files whose stat() raises: the loop header
\* is outside the inner try, so the outer except ends the pass and returns
\* [], 0.  failing holds the files whose unlink raises (logged, skipped).
RECURSIVE StorageCleanup_age_loop(_, _, _, _, _, _, _, _, _)
StorageCleanup_age_loop(fs, order, k, cutoff, dry_run, failing, unreadable, deleted_files, deleted_size) ==
    IF k > Len(order)
    THEN [files |-> fs, deleted_files |-> deleted_files,
          deleted_size |-> deleted_size]
    ELSE IF order[k] \in unreadable
    THEN [files |-> fs, deleted_files |-> 0, deleted_size |-> 0]
    ELSE IF \/ ~is_expired(fs[order[k]].mtime, cutoff)
            \/ dry_run
            \/ order[k] \in failing
    THEN StorageCleanup_age_loop(fs, order, k + 1, cutoff, dry_run, failing,
                                 unreadable, deleted_files, deleted_size)
    ELSE StorageCleanup_age_loop(Restrict(fs, DOMAIN fs \ {order[k]}),
                                 order, k + 1, cutoff, dry_run, failing,
                                 unreadable, deleted_files + 1,
                                 deleted_size + fs[order[k]].size)

\* StorageCleanup.cleanup_by_age of storage_cleanup.py: the directory after
\* the call and the (deleted_files, deleted_size) it returns.
StorageCleanup_cleanup_by_age_call(fs, order, t, days, dry_run, failing, unreadable) ==
    StorageCleanup_age_loop(fs, order, 1, cutoff_time(t, days), dry_run,
                            failing, unreadable, 0, 0)

\* The directory after a cleanup_by_age call in which every file can be
\* inspected (the order of the scan then makes no difference).
StorageCleanup_cleanup_by_age(fs, t, days, dry_run, failing) ==
    StorageCleanup_cleanup_by_age_call(fs, sort_files(fs, DOMAIN fs), t, days,
                                       dry_run, failing, {}).files

\* The deletion loop of StorageCleanup.cleanup_by_size from the k-th file.
RECURSIVE StorageCleanup_size_loop(_, _, _, _, _, _, _)
StorageCleanup_size_loop(fs, order, k, current_size, keep_recent_time, dry_run, failing) ==
    IF k > Len(order) \/ current_size <= max_size_bytes THEN fs
    ELSE IF \/ fs[order[k]].mtime > keep_recent_time   \* is_recent
            \/ dry_run
            \/ order[k] \in failing
    THEN StorageCleanup_size_loop(fs, order, k + 1, current_size,
                                  keep_recent_time, dry_run, failing)
    ELSE StorageCleanup_size_loop(Restrict(fs, DOMAIN fs \ {order[k]}),
                                  order, k + 1,
                                  current_size - fs[order[k]].size,
                                  keep_recent_time, dry_run, failing)

\* StorageCleanup.cleanup_by_size of storage_cleanup.py
StorageCleanup_cleanup_by_size(fs, t, dry_run, failing) ==
    LET total_size == get_directory_size(fs)
        keep_recent_time == t - keep_recent_hours * 3600
    IN  IF total_size <= max_size_bytes THEN fs
        ELSE StorageCleanup_size_loop(fs, sort_files(fs, DOMAIN fs), 1,
                                      total_size, keep_recent_time, dry_run,
                                      failing)

\* StorageCleanup.run_comprehensive_cleanup, for the capture directory.
run_comprehensive_cleanup(fs, t, dry_run, failing) ==
    LET aged == StorageCleanup_cleanup_by_age(fs, t, max_age_days, dry_run,
                                              failing)
    IN  [after_age |-> aged,
         after |-> StorageCleanup_cleanup_by_size(aged, t, dry_run, failing)]

\* The unlink failures of one pass: none, or one file.
FailingSets(fs) == {{}} \cup {{n} : n \in DOMAIN fs}

\* One failure in a pass at most: the unlink failures beside the files
\* that cannot be inspected.
OtherFailures(fs, unreadable) ==
    IF unreadable = {} THEN FailingSets(fs) ELSE {{}}

\* The order of the scan only matters when an unreadable file cuts it
\* short.
CutShortOrders(fs, unreadable) ==
    IF unreadable = {} THEN {sort_files(fs, DOMAIN fs)}
    ELSE ScanOrders(DOMAIN fs)

\* The record of a cleanup pass: the directory before it, after its age
\* policy and after the pass.
pass_record(kind, before, after_age, after, t, dry_run, failing) ==
    [kind |-> kind, before |-> before, after_age |-> after_age,
     after |-> after, at |-> t, dry_run |-> dry_run, failing |-> failing]

\* Whether the pass now beginning repeats the pass before it: the same
\* entry point, run for real both times, at the same clock value, no file
\* created or modified in between, no unlink and no inspection having
\* failed in the first.
\* <<k>> when it does, k being the number of files the first one deleted.
repeat_of(kind, t, dry_run) ==
    IF /\ shist.last.kind = kind
       /\ shist.last.at = t
       /\ shist.last.after = files
       /\ ~shist.last.dry_run
       /\ ~dry_run
       /\ shist.last.failing = {}
       /\ shist.unreadable = {}
    THEN <<Cardinality(DOMAIN shist.last.before \ DOMAIN shist.last.after)>>
    ELSE <<>>

NewStorageHist ==
    [steps |-> 0,
     last |-> pass_record("none", <<>>, <<>>, <<>>, 0, FALSE, {}),
     repeat_of |-> <<>>, unreadable |-> {}, reported |-> <<>>]

StorageInit ==
    /\ now = StartTime
    /\ files = <<>>
    /\ shist = NewStorageHist

StorageIdle ==
    /\ files = <<>>
    /\ shist = NewStorageHist

\* The capture path writes a new file: save_event / save_event_optimized.
SaveFile ==
    /\ shist.steps < MaxStorageSteps
    /\ \E n \in FileNames \ DOMAIN files, sz \in FileSizes :
          files' = files @@ (n :> [mtime |-> now, size |-> sz])
    /\ shist' = [shist EXCEPT !.steps = @ + 1]
    /\ UNCHANGED now
    /\ UNCHANGED notStorageVars

\* Time goes by.
StorageWait ==
    /\ shist.steps < MaxStorageSteps
    /\ \E gap \in StorageGaps : now' = now + gap
    /\ shist' = [shist EXCEPT !.steps = @ + 1]
    /\ UNCHANGED files
    /\ UNCHANGED notStorageVars

\* The hourly pass of monitor_optimized.py: StorageManager.perform_cleanup.
PerformCleanup ==
    /\ shist.steps < MaxStorageSteps
    /\ \E failing \in FailingSets(files) :
          LET r == perform_cleanup(files, now, failing)
          IN  /\ files' = r.after
              /\ shist' = [steps |-> shist.steps + 1,
                           last |-> pass_record("perform_cleanup", files,
                                                r.after_age, r.after, now,
                                                FALSE, failing),
                           repeat_of |-> repeat_of("perform_cleanup", now, FALSE),
                           unreadable |-> {}, reported |-> <<>>]
    /\ UNCHANGED now
    /\ UNCHANGED notStorageVars

\* storage_cleanup.py --age-only
CleanupByAge ==
    /\ shist.steps < MaxStorageSteps
    /\ \E unreadable \in FailingSets(files), dry_run \in BOOLEAN :
       \E failing \in OtherFailures(files, unreadable),
          order \in CutShortOrders(files, unreadable) :
          LET r == StorageCleanup_cleanup_by_age_call(files, order, now,
                                                     max_age_days, dry_run,
                                                     failing, unreadable)
          IN  /\ files' = r.files
              /\ shist' = [steps |-> shist.steps + 1,
                           last |-> pass_record("cleanup_by_age", files,
                                                r.files, r.files, now,
                                                dry_run, failing),
                           repeat_of |-> repeat_of("cleanup_by_age", now, dry_run),
                           unreadable |-> unreadable,
                           reported |-> <<r.deleted_files, r.deleted_size>>]
    /\ UNCHANGED now
    /\ UNCHANGED notStorageVars

\* storage_cleanup.py --size-only
CleanupBySize ==
    /\ shist.steps < MaxStorageSteps
    /\ \E failing \in FailingSets(files), dry_run \in BOOLEAN :
          LET after == StorageCleanup_cleanup_by_size(files, now, dry_run,
                                                      failing)
          IN  /\ files' = after
              /\ shist' = [steps |-> shist.steps + 1,
                           last |-> pass_record("cleanup_by_size", files,
                                                files, after, now, dry_run,
                                                failing),
                           repeat_of |-> repeat_of("cleanup_by_size", now, dry_run),
                           unreadable |-> {}, reported |-> <<>>]
    /\ UNCHANGED now
    /\ UNCHANGED notStorageVars

\* storage_cleanup.py without a mode option
RunComprehensiveCleanup ==
    /\ shist.steps < MaxStorageSteps
    /\ \E failing \in FailingSets(files), dry_run \in BOOLEAN :
          LET r == run_comprehensive_cleanup(files, now, dry_run, failing)
          IN  /\ files' = r.after
              /\ shist' = [steps |-> shist.steps + 1,
                           last |-> pass_record("run_comprehensive_cleanup",
                                                files, r.after_age, r.after,
                                                now, dry_run, failing),
                           repeat_of |-> repeat_of("run_comprehensive_cleanup", now, dry_run),
                           unreadable |-> {}, reported |-> <<>>]
    /\ UNCHANGED now
    /\ UNCHANGED notStorageVars

\* MonitorSystem._cleanup_old_files of monitor_daemon.py: os.remove of
\* every expired file in glob order; the first os.remove that raises ends
\* the pass, with the expired files glob had not reached left in place.
DaemonCleanupOldFiles ==
    /\ shist.steps < MaxStorageSteps
    /\ \E failing \in FailingSets(files) :
          LET expired == {n \in DOMAIN files :
                            is_expired(files[n].mtime,
                                       cutoff_time(now, max_age_days))}
          IN  \E removed \in SUBSET (expired \ failing) :
                 /\ (expired \cap failing = {}) => removed = expired
                 /\ files' = Restrict(files, DOMAIN files \ removed)
                 /\ shist' = [steps |-> shist.steps + 1,
                              last |-> pass_record("_cleanup_old_files",
                                                   files, files', files',
                                                   now, FALSE, failing),
                              repeat_of |-> repeat_of("_cleanup_old_files", now, FALSE),
                              unreadable |-> {}, reported |-> <<>>]
    /\ UNCHANGED now
    /\ UNCHANGED notStorageVars

---------------------------------------------------------------------------
(* src/storage_cleanup.py: the calls of main() and their --dry-run         *)

max_log_age_days == 14      \* cleanup_log_files: max_log_age_days
max_log_size_bytes == 10    \* cleanup_log_files: max_log_size_mb, in units

\* Directories under base_dir that hold no file: one inside the other.
DirNames == {"captures/a", "captures/a/b"}

\* The files log_dir.glob('*.log*') yields.
LogNames == {"monitor.log", "monitor.log.1"}

\* StorageCleanup.cleanup_empty_directories: deepest first, every directory
\* found empty is removed, so a directory whose only entry was an empty
\* directory goes too.
cleanup_empty_directories_always(dirs, dry_run) == {}

cleanup_empty_directories(dirs, dry_run) == IF dry_run THEN dirs ELSE {}

\* The size stage of cleanup_log_files: oldest first among the logs still
\* to visit, monitor.log is kept, the loop ends at max_log_size_bytes.
RECURSIVE log_size_loop(_, _, _, _)
log_size_loop(logs, todo, current_log_size, dry_run) ==
    IF todo = {} \/ current_log_size <= max_log_size_bytes THEN logs
    ELSE LET n == CHOOSE a \in todo :
                     \A b \in todo : logs[a].mtime <= logs[b].mtime
         IN  IF n = "monitor.log" \/ dry_run
             THEN log_size_loop(logs, todo \ {n}, current_log_size, dry_run)
             ELSE log_size_loop(Restrict(logs, DOMAIN logs \ {n}), todo \ {n},
                                current_log_size - logs[n].size, dry_run)

\* StorageCleanup.cleanup_log_files at time t: the expired logs go first;
\* the size stage runs when the total measured before that was over the
\* limit, on a fresh scan.
cleanup_log_files(logs, t, dry_run) ==
    LET cutoff == cutoff_time(t, max_log_age_days)
        total_log_size == SumSizes(logs, DOMAIN logs)
        aged == IF dry_run THEN logs
                ELSE Restrict(logs, {n \in DOMAIN logs :
                                       ~is_expired(logs[n].mtime, cutoff)})
    IN  IF total_log_size > max_log_size_bytes
        THEN log_size_loop(aged, DOMAIN aged, SumSizes(aged, DOMAIN aged),
                           dry_run)
        ELSE aged

\* The entry points of storage_cleanup.py that take dry_run.
CleanupFns ==
    {"cleanup_by_age", "cleanup_by_size", "cleanup_empty_directories",
     "cleanup_log_files", "run_comprehensive_cleanup"}

\* The record of a call: its name, its dry_run and what was on disk before.
call_record(fn, dry_run, fs, dirs, logs) ==
    [fn |-> fn, dry_run |-> dry_run, files |-> fs, dirs |-> dirs,
     logs |-> logs]

NewTree ==
    [dirs |-> {}, logs |-> <<>>,
     last |-> call_record("none", FALSE, <<>>, {}, <<>>)]

TreeIdle == tree = NewTree

\* What a file or a log can look like when a call begins: older than the
\* age limit, older than the recent-file protection only, or new.
FileAges == {max_age_days * 24 * 3600 + 1, keep_recent_hours * 3600 + 1, 0}
LogAges == {max_log_age_days * 24 * 3600 + 1, 0}

\* The capture directory, the empty directories and the log directory as
\* a call can find them.
TreeInit ==
    /\ now = StartTime
    /\ \E S \in SUBSET FileNames :
          files \in [S -> [mtime : {StartTime - a : a \in FileAges},
                           size : FileSizes]]
    /\ shist = NewStorageHist
    /\ \E D \in {{}, DirNames}, L \in SUBSET LogNames :
       \E logs \in [L -> [mtime : {StartTime - a : a \in LogAges},
                          size : FileSizes]] :
          tree = [NewTree EXCEPT !.dirs = D, !.logs = logs]

\* One call of fn with or without --dry-run.
CleanupCall(fn) ==
    \E dry_run \in BOOLEAN :
       LET fs == CASE fn = "cleanup_by_age" ->
                        StorageCleanup_cleanup_by_age(files, now, max_age_days,
                                                      dry_run, {})
                   [] fn = "cleanup_by_size" ->
                        StorageCleanup_cleanup_by_size(files, now, dry_run, {})
                   [] fn = "run_comprehensive_cleanup" ->
                        run_comprehensive_cleanup(files, now, dry_run, {}).after
                   [] OTHER -> files
           dirs == IF fn \in {"cleanup_empty_directories",
                              "run_comprehensive_cleanup"}
                   THEN cleanup_empty_directories(tree.dirs, dry_run)
                   ELSE tree.dirs
           logs == IF fn \in {"cleanup_log_files", "run_comprehensive_cleanup"}
                   THEN cleanup_log_files(tree.logs, now, dry_run)
                   ELSE tree.logs
       IN  /\ files' = fs
           /\ tree' = [dirs |-> dirs, logs |-> logs,
                       last |-> call_record(fn, dry_run, files, tree.dirs,
                                            tree.logs)]
           /\ UNCHANGED notTreeVars

---------------------------------------------------------------------------
(* Claims about the core pipeline                                          *)

\* The alerts _handle_alerts made for sensor s, as indexes of chist.created.
AlertsOf(s) ==
    {i \in DOMAIN chist.created : chist.created[i].alert_data.sensor_id = s}

CreatedAt(i) == chist.created[i].alert_data.timestamp

InAlert(s) == \E k \in DOMAIN chist.last_alerts : chist.last_alerts[k] = s

C6_EvidenceAtCreation ==
    \A i \in DOMAIN chist.created :
        LET id == chist.created[i].alert_data.id
        IN  id \in DOMAIN chist.images
               => chist.images[id] = chist.created[i].images

\* C8: an alert whose sending failed for good was attempted exactly
\* config.alerts.max_retries (3) times.
C8_ExactlyMaxRetries ==
    \A k \in DOMAIN manager.alerts :
        ~manager.alerts[k].sent
           => chist.attempts[manager.alerts[k].metadata.id]
                 = config_alerts_max_retries

\* C10: every alert the dispatcher is done with has exactly one stored
\* Alert, sent or with its error.
C10_OneTerminalOutcome ==
    \A id \in chist.done :
        Cardinality({k \in DOMAIN manager.alerts :
                        manager.alerts[k].metadata.id = id}) = 1

---------------------------------------------------------------------------
(* Claims about the optimized variant                                      *)

\* C11: an iteration that has an alert to enqueue while the email queue is
\* full ends at once, whatever the worker is doing: the queue is unchanged,
\* the alert is recorded as dropped and the monitor thread is back at the
\* top of its loop, not waiting for room.
C11_FullQueueNoBlock ==
    [][(ohist'.passed = ohist.passed + 1
          /\ Len(opt.email_queue) = QueueMaxSize)
       => /\ opt'.email_queue = opt.email_queue
          /\ opt'.mon_pc = "loop"
          /\ ohist'.ticks = ohist.ticks + 1
          /\ ohist'.dropped = Append(ohist.dropped, ohist'.passed)
          /\ ohist'.enqueued = ohist.enqueued]_vars

\* An alert was dropped on a full queue and the monitor loop goes on.
C11_Witness ==
    /\ Len(ohist.dropped) >= 1
    /\ Len(opt.email_queue) = QueueMaxSize
    /\ opt.mon_pc = "loop"
    /\ opt.running

\* C21: the shutdown path always completes.  It cannot be left waiting
\* for ever: cleanup() is never blocked in its put of the sentinel on a
\* full queue once the only consumer of the queue, the email worker, has
\* ended.
C21_ShutdownNeverStuck ==
    ~(/\ opt.mon_pc = "blocked_in_cleanup"
      /\ opt.email_pc = "exited"
      /\ Len(opt.email_queue) = QueueMaxSize)

\* C13: the cooldown timestamp of an event type is set when its alert is
\* created and never by the delivery outcome: the step in which a delivery
\* ends, well or badly, leaves every cooldown table as it was.
C13_CooldownSetAtCreationOnly ==
    [][(proc.pc = "sending" /\ proc'.pc = "idle")
       => /\ manager'.cooldowns = manager.cooldowns
          /\ core'.alert_cooldowns = core.alert_cooldowns]_vars

---------------------------------------------------------------------------
(* Claims about the storage cleanup                                        *)

\* The files the last cleanup pass deleted, and those its size policy did.
Deleted == DOMAIN shist.last.before \ DOMAIN shist.last.after

DeletedBySize == DOMAIN shist.last.after_age \ DOMAIN shist.last.after

AgePasses ==
    {"perform_cleanup", "cleanup_by_age", "run_comprehensive_cleanup",
     "_cleanup_old_files"}

SizePasses ==
    {"perform_cleanup", "cleanup_by_size", "run_comprehensive_cleanup"}

\* The last pass really deletes (no dry run), every file could be
\* inspected and no unlink of a file older than max_age failed in it.
AgePassRan ==
    /\ shist.last.kind \in AgePasses
    /\ ~shist.last.dry_run
    /\ shist.unreadable = {}
    /\ \A n \in shist.last.failing :
          shist.last.before[n].mtime
              >= cutoff_time(shist.last.at, max_age_days)

\* C14: a cleanup pass deletes every file whose last-modified time is older
\* than max_age, and when the total size is within budget it deletes no
\* file that is not older than max_age.
C14_AgePolicy ==
    AgePassRan =>
        LET p == shist.last
            cutoff == cutoff_time(p.at, max_age_days)
        IN  /\ \A n \in DOMAIN p.before :
                  p.before[n].mtime < cutoff => n \in Deleted
            /\ get_directory_size(p.after_age) <= max_size_bytes
                  => \A n \in Deleted : p.before[n].mtime < cutoff

\* A pass of StorageManager deleted an old file and kept a younger one,
\* with the total within budget.
C14_Witness ==
    /\ AgePassRan
    /\ shist.last.kind = "perform_cleanup"
    /\ Deleted # {}
    /\ DOMAIN shist.last.after # {}
    /\ get_directory_size(shist.last.after_age) <= max_size_bytes

\* C15: when the total after the age policy exceeds the budget, the pass
\* deletes oldest-first and stops as soon as usage is at or below 80% of
\* the budget: the files the size policy deleted are the shortest prefix
\* of the oldest-first order that brings usage to the target (or all of
\* them); within budget the size policy deletes nothing.
C15_SizePolicy ==
    (/\ shist.last.kind \in SizePasses
     /\ ~shist.last.dry_run
     /\ shist.last.failing = {})
    => LET p == shist.last
           order == sort_files(p.after_age, DOMAIN p.after_age)
           left == get_directory_size(p.after)
       IN  IF get_directory_size(p.after_age) <= max_size_bytes
           THEN DeletedBySize = {}
           ELSE \E k \in 0..Len(order) :
                   /\ DeletedBySize = {order[i] : i \in 1..k}
                   /\ (10 * left <= 8 * max_size_bytes \/ k = Len(order))
                   /\ k > 0 =>
                        10 * (left + p.after_age[order[k]].size)
                            > 8 * max_size_bytes

\* C16: no cleanup pass deletes a file whose last-modified time lies in
\* the grace window: a file deleted by a pass was last modified before the
\* time of the pass, not at it.
C16_GraceWindow ==
    shist.last.kind # "none"
    => \A n \in Deleted : shist.last.before[n].mtime < shist.last.at

\* C40: the watchdog issues at most max_daily_restarts restart commands per
\* calendar day, whether or not the commands succeed; once the limit is
\* reached restart_service returns False without running the command,
\* until the date changes and the count is reset to 0.
C40_DailyRestartLimit ==
    /\ wd.commands <= max_daily_restarts
    /\ (wd.last.called /\ wd.last.count_before >= max_daily_restarts)
          => (~wd.last.ran /\ ~wd.last.returned)
    /\ wd.last_restart_date # <<>> => wd.restart_count <= max_daily_restarts

C37_OneLoopThread ==
    Cardinality({t \in DOMAIN sys.threads :
                   sys.threads[t].pc = "in_tick"}) <= 1

\* C36: the in-memory archive buffer that save_event put on the alert
\* queue is still open, with the same bytes, whenever the worker reads it
\* in _send_alert_internal, in every interleaving of the two threads.
C36_BufferOpenWhenRead ==
    [][(/\ Len(hist'.started) = Len(hist.started) + 1
        /\ mon.smtp_complete)
       => (/\ worker'.item.id \notin closed
           /\ worker'.pc = "sending")]_vars

\* C35: whenever the cooldown timestamp of an event type is updated, an
\* alert of that type is placed on the dispatch queue in the same tick; the
\* cooldown is never consumed by an alert that is dropped or skipped.
C35_CooldownMeansQueued ==
    [][(\/ mon'.last_fire_alert # mon.last_fire_alert
        \/ mon'.last_smoke_alert # mon.last_smoke_alert)
       => (/\ Len(alert_queue') = Len(alert_queue) + 1
           /\ alert_queue'[Len(alert_queue')].event_type =
                 (IF mon'.last_fire_alert # mon.last_fire_alert
                  THEN "FIRE" ELSE "SMOKE"))]_vars

\* C34: with dry_run=True, cleanup_by_age, cleanup_by_size,
\* cleanup_empty_directories, cleanup_log_files and
\* run_comprehensive_cleanup delete no file and no directory: what is under
\* the capture and log directories after the call is what was there before.
C34_DryRunDeletesNothing ==
    tree.last.dry_run
    => (/\ files = tree.last.files
        /\ tree.dirs = tree.last.dirs
        /\ tree.logs = tree.last.logs)

\* A dry run of the comprehensive cleanup over an expired capture file, a
\* directory over its size budget, empty directories, an expired log and
\* logs over their size limit: a real run would have deleted from each.
C34_Witness ==
    /\ tree.last.dry_run
    /\ tree.last.fn = "run_comprehensive_cleanup"
    /\ \E n \in DOMAIN files :
          is_expired(files[n].mtime, cutoff_time(now, max_age_days))
    /\ get_directory_size(files) > max_size_bytes
    /\ tree.dirs = DirNames
    /\ \E n \in DOMAIN tree.logs :
          is_expired(tree.logs[n].mtime, cutoff_time(now, max_log_age_days))
    /\ SumSizes(tree.logs, DOMAIN tree.logs) > max_log_size_bytes

\* C33: a file whose deletion or inspection fails during a cleanup pass is
\* skipped: the pass still deletes every other eligible file, and the
\* count and the bytes it reports are those of the files it did delete.
C33_FailureSkipped ==
    (shist.last.kind = "cleanup_by_age" /\ ~shist.last.dry_run)
    => LET p == shist.last
           cutoff == cutoff_time(p.at, max_age_days)
           skipped == p.failing \cup shist.unreadable
       IN  /\ \A n \in DOMAIN p.before \ skipped :
                  p.before[n].mtime < cutoff => n \in Deleted
           /\ shist.reported = <<Cardinality(Deleted),
                                 SumSizes(p.before, Deleted)>>

---------------------------------------------------------------------------
(* Claims about the monitor loop's life cycle                              *)

\* C17: an error raised inside a tick is caught in the loop, counted in
\* the error counter and followed by a backoff sleep and a next tick: the
\* counter equals the errors raised, every errored tick was followed by a
\* sleep of positive length, and the loop has returned only after the
\* shutdown signal.
C17_ErrorCountedAndBackoff ==
    /\ life.errors = life.raised
    /\ \A i \in DOMAIN life.error_sleeps : life.error_sleeps[i] > 0
    /\ life.monitor_pc = "returned" => ~life.running

\* C19: shutdown never interrupts a tick midway: while a tick is in
\* progress the camera has not been released, and the thread of the loop
\* is never ended inside a tick.
C19_NoMidTickShutdown ==
    /\ life.monitor_pc = "in_tick" => life.camera = "open"
    /\ ~life.cut
    /\ life.monitor_pc # "killed"

---------------------------------------------------------------------------
(* Claims about one iteration of monitor_daemon.py                          *)

\* C12: when smoke and flame are both triggered and both eligible in the
\* same tick, an alert is created for each of them in that tick: after a
\* tick that created an alert, no event type is left over its threshold
\* and out of its cooldown without an alert of its own.
C12_EachTypeAlerts ==
    [][hist'.created = hist.created + 1
       => /\ ~should_alert(mon'.smoke_count, smoke_threshold,
                           mon'.last_smoke_alert, now')
          /\ ~should_alert(mon'.fire_count, fire_threshold,
                           mon'.last_fire_alert, now')]_vars

\* C18: a tick whose frame capture failed still reads and debounces the
\* sensors: in every tick each counter is either incremented (positive
\* reading) or reset (negative reading or alert), never left as it was
\* when it is not zero.
C18_CaptureFailureStillEvaluates ==
    [][hist'.ticks = hist.ticks + 1
       => /\ mon'.fire_count \in {0, mon.fire_count + 1}
          /\ mon'.smoke_count \in {0, mon.smoke_count + 1}]_vars

\* C29: at the end of every tick the loop sleeps max(0, T - elapsed), T
\* being the sampling interval: the sleep is 0 when the tick took T or
\* longer and makes the start-to-start period T otherwise.
C29_SleepCompensatesElapsed ==
    (ohist.ticks > 0 /\ opt.mon_pc = "loop")
    => ohist.slept = (IF OPT_CAP_INTERVAL - ohist.loop_time > 0
                      THEN OPT_CAP_INTERVAL - ohist.loop_time ELSE 0)

\* The alerts waiting on the queue (the sentinel of cleanup() is no alert).
PendingAlerts ==
    Cardinality({i \in DOMAIN alert_queue : alert_queue[i].kind = "alert"})

\* C28: the alert queue between the coordinator and the dispatcher is
\* bounded: it never holds more pending alerts than the configured
\* capacity (QueueMaxSize), however slow the worker is.
C28_QueueBounded ==
    PendingAlerts <= QueueMaxSize

\* The latest iteration of monitor_loop got as far as the evaluation of
\* the counts: the newest entry of the buffer is its own.
LatestTickEvaluated ==
    /\ mon.buffer # <<>>
    /\ mon.buffer[Len(mon.buffer)].ts = hist.ticks

\* C27: an event type is eligible exactly when it never fired or
\* now - last_fired >= cooldown_period: a smoke count left at or above its
\* threshold by an iteration that raised no FIRE alert means SMOKE was
\* inside its cooldown, less than alert_cooldown after it last fired.
C27_CooldownBoundary ==
    (/\ LatestTickEvaluated
     /\ mon.smoke_count >= smoke_threshold
     /\ mon.last_fire_alert # <<now>>)
    => (/\ mon.last_smoke_alert # <<>>
        /\ now - mon.last_smoke_alert[1] < alert_cooldown)

\* C26: a storage cleanup pass never runs on the sampling loop's thread:
\* the thread of monitor_loop is never inside _cleanup_old_files.
C26_CleanupOffSamplingThread ==
    mon_pc # "in_cleanup_old_files"

\* C25: a failed sensor read counts as a negative reading: after an
\* iteration whose sensor read failed both consecutive counts are 0, so a
\* run of positives does not go on across the failure.
C25_FailedReadResets ==
    hist.read_failed => (mon.fire_count = 0 /\ mon.smoke_count = 0)

\* C20: shutdown leaves no already-enqueued alert unattempted: when the
\* process has exited, the worker has taken every alert that was put on
\* the queue before the sentinel.
C20_ShutdownDrainsQueue ==
    mon_pc = "exited"
    => \A id \in 1..MaxAlerts :
          (\E k \in 1..Len(hist.enqueued) : hist.enqueued[k] = id)
          => (\E k \in 1..Len(hist.started) : hist.started[k] = id)

---------------------------------------------------------------------------
(* Claims about the dispatcher worker of monitor_daemon.py                 *)

Finished(id) == id \in DOMAIN hist.outcome

Started(id) == \E k \in 1..Len(hist.started) : hist.started[k] = id

Enqueued(id) == \E k \in 1..Len(hist.enqueued) : hist.enqueued[k] = id

\* C7: the worker delivers alerts in the order enqueue accepted them: the
\* alerts whose delivery has started are the first ones enqueued, in that
\* order, and every one of them but the last has finished (sent, failed
\* for good, or skipped).
C7_FifoDelivery ==
    /\ Len(hist.started) <= Len(hist.enqueued)
    /\ hist.started = SubSeq(hist.enqueued, 1, Len(hist.started))
    /\ \A k \in 1..(Len(hist.started) - 1) : Finished(hist.started[k])

\* The first alert has failed for good and the second one is being sent.
C7_Witness ==
    /\ hist.started = <<1, 2>>
    /\ worker.pc = "sending"
    /\ worker.item.id = 2
    /\ hist.outcome[1] = "failed"

\* C9: a delivery failure never ends or stalls the worker: the worker ends
\* only on the stop sentinel, and every alert on the queue is eventually
\* taken up by the worker, unless the process has ended.
C9_WorkerNeverStalls ==
    /\ [](worker.pc = "exited" => worker.item.kind = "stop")
    /\ \A id \in 1..MaxAlerts :
          (Enqueued(id) /\ mon_pc # "exited")
              ~> (Started(id) \/ mon_pc = "exited")

\* The first alert failed on all its attempts and the second one, queued
\* behind it, was taken up.
C9_Witness ==
    /\ Finished(1)
    /\ hist.outcome[1] = "failed"
    /\ hist.attempts[1] = retry_count
    /\ Started(2)
    /\ worker.pc # "exited"

---------------------------------------------------------------------------
(* Specifications                                                          *)

InitSensors == SensorsInit /\ BufferIdle /\ DaemonIdle /\ CoreIdle /\ OptIdle
              /\ StorageIdle /\ LifeIdle
              /\ ThreadsIdle
              /\ WdIdle
              /\ SupIdle
              /\ SvcIdle
              /\ SysIdle
              /\ TreeIdle
NextSensors == \E s \in SensorIds : IsTriggered(s)
SpecSensors == InitSensors /\ [][NextSensors]_vars

InitBuffer == BufferInit /\ SensorsIdle /\ DaemonIdle /\ CoreIdle /\ OptIdle
              /\ StorageIdle /\ LifeIdle
              /\ ThreadsIdle
              /\ WdIdle
              /\ SupIdle
              /\ SvcIdle
              /\ SysIdle
              /\ TreeIdle
NextBuffer == AddFrame \/ GetFrames \/ Clear
SpecBuffer == InitBuffer /\ [][NextBuffer]_vars

InitDaemon == DaemonInit /\ SensorsIdle /\ BufferIdle /\ CoreIdle /\ OptIdle
              /\ StorageIdle /\ LifeIdle
              /\ ThreadsIdle
              /\ WdIdle
              /\ SupIdle
              /\ SvcIdle
              /\ SysIdle
              /\ TreeIdle
NextDaemon ==
    \/ MonitorTick
    \/ SaveEventExit
    \/ CleanupOldFilesReturn
    \/ SignalHandler
    \/ Cleanup
    \/ ProcessExit
    \/ WorkerGet
    \/ WorkerSend
SpecDaemon == InitDaemon /\ [][NextDaemon]_vars

InitCore == CoreInit /\ DaemonIdle /\ OptIdle /\ StorageIdle /\ LifeIdle
              /\ ThreadsIdle
              /\ WdIdle
              /\ SupIdle
              /\ SvcIdle
              /\ SysIdle
              /\ TreeIdle
NextCore ==
    \/ CoreTick
    \/ CaptureLoop
    \/ ProcessGet
    \/ ProcessSend
    \/ CoreStop
SpecCore == InitCore /\ [][NextCore]_vars

\* The monitor thread of the core pipeline alone: alerts are made and
\* queue up.
NextCoreMonitor ==
    \/ CoreTick
    \/ CoreStop
SpecCoreMonitor == InitCore /\ [][NextCoreMonitor]_vars

InitOpt == OptInit /\ SensorsIdle /\ BufferIdle /\ DaemonIdle /\ CoreIdle
           /\ StorageIdle /\ LifeIdle
              /\ ThreadsIdle
              /\ WdIdle
              /\ SupIdle
              /\ SvcIdle
              /\ SysIdle
              /\ TreeIdle
NextOpt ==
    \/ OptTick
    \/ OptSignalHandler
    \/ OptCleanup
    \/ OptCleanupPut
    \/ OptJoinReturn
    \/ EmailGet
    \/ EmailSend
    \/ EmailLoopExit
SpecOpt == InitOpt /\ [][NextOpt]_vars

InitStorage == StorageInit /\ SensorsIdle /\ BufferIdle /\ DaemonIdle
               /\ CoreIdle /\ OptIdle /\ LifeIdle
              /\ ThreadsIdle
              /\ WdIdle
              /\ SupIdle
              /\ SvcIdle
              /\ SysIdle
              /\ TreeIdle
NextStorage ==
    \/ SaveFile
    \/ StorageWait
    \/ PerformCleanup
    \/ CleanupByAge
    \/ CleanupBySize
    \/ RunComprehensiveCleanup
    \/ DaemonCleanupOldFiles
SpecStorage == InitStorage /\ [][NextStorage]_vars

InitSys == SysInit /\ SensorsIdle /\ BufferIdle /\ DaemonIdle /\ CoreIdle
           /\ OptIdle /\ StorageIdle /\ LifeIdle
           /\ ThreadsIdle
           /\ WdIdle
           /\ SupIdle
           /\ SvcIdle
           /\ TreeIdle
NextSys ==
    \/ SysStart
    \/ SysStop
    \/ SysJoin
    \/ SysRestart
    \/ SysRestartStart
    \/ \E t \in DOMAIN sys.threads : ThreadStep(t)
    \/ SysAdvance
SpecSys == InitSys /\ [][NextSys]_vars

InitSvc == SvcInit /\ SensorsIdle /\ BufferIdle /\ DaemonIdle /\ CoreIdle
           /\ OptIdle /\ StorageIdle /\ LifeIdle
           /\ ThreadsIdle
           /\ WdIdle
           /\ SupIdle
           /\ TreeIdle /\ SysIdle
NextSvc ==
    \/ SvcStart
    \/ SvcStartMonitor
    \/ SvcRunLoop
    \/ SvcCleanup
    \/ SvcSignal
SpecSvc == InitSvc /\ [][NextSvc]_vars

\* The main thread of the service is scheduled, and it runs the handler
\* of a delivered signal.
SpecSvcFair ==
    /\ SpecSvc
    /\ WF_vars(SvcStart \/ SvcStartMonitor \/ SvcRunLoop \/ SvcCleanup)

InitSup == SupInit /\ SensorsIdle /\ BufferIdle /\ DaemonIdle /\ CoreIdle
           /\ OptIdle /\ StorageIdle /\ LifeIdle
           /\ ThreadsIdle
           /\ WdIdle
           /\ TreeIdle /\ SysIdle /\ SvcIdle
NextSup ==
    \/ SupLoopTest
    \/ SupInitialize
    \/ SupMonitorLoop
    \/ SupSleep
    \/ SupSignal
SpecSup == InitSup /\ [][NextSup]_vars

\* main() is scheduled: its calls return and its sleeps end.
SpecSupFair ==
    /\ SpecSup
    /\ WF_vars(SupLoopTest \/ SupInitialize \/ SupMonitorLoop \/ SupSleep)

InitWd == WdInit /\ SensorsIdle /\ BufferIdle /\ DaemonIdle /\ CoreIdle
          /\ OptIdle /\ StorageIdle /\ LifeIdle
          /\ ThreadsIdle
          /\ TreeIdle /\ SysIdle /\ SvcIdle /\ SupIdle
NextWd ==
    \/ WdHealthCheck
    \/ WdNextDay
SpecWd == InitWd /\ [][NextWd]_vars

InitTree == TreeInit /\ SensorsIdle /\ BufferIdle /\ DaemonIdle /\ CoreIdle
            /\ OptIdle /\ LifeIdle
            /\ ThreadsIdle
            /\ WdIdle
            /\ SupIdle
            /\ SvcIdle
            /\ SysIdle
NextTree == \E fn \in CleanupFns : CleanupCall(fn)
SpecTree == InitTree /\ [][NextTree]_vars

InitLife == LifeInit /\ SensorsIdle /\ BufferIdle /\ DaemonIdle /\ CoreIdle
            /\ OptIdle /\ StorageIdle
              /\ ThreadsIdle
              /\ WdIdle
              /\ SupIdle
              /\ SvcIdle
              /\ SysIdle
              /\ TreeIdle
NextLife ==
    \/ MonitorStart
    \/ MonitorLoopTest
    \/ MonitorLoopBody
    \/ MonitorLoopSleep
    \/ MonitorStop
    \/ MonitorJoin
SpecLife == InitLife /\ [][NextLife]_vars

InitThreads == ThreadsInit /\ BufferInit /\ SensorsIdle /\ DaemonIdle
               /\ CoreIdle /\ OptIdle /\ StorageIdle /\ LifeIdle
               /\ TreeIdle
               /\ SysIdle
               /\ SvcIdle
               /\ SupIdle
               /\ WdIdle
NextThreads ==
    \/ AddFrameEnter
    \/ AddFrameEvict
    \/ AddFrameInsert
    \/ AddFrameExit
    \/ GetFramesEnter
    \/ GetFramesCopy
    \/ GetFramesExit
SpecThreads == InitThreads /\ [][NextThreads]_vars

\* The worker is a thread of its own: it is scheduled again and again.
SpecDaemonFair ==
    SpecDaemon /\ WF_vars(WorkerGet) /\ WF_vars(WorkerSend)

=============================================================================
